---- MODULE Spec2Model ----
(***************************************************************************)
(* Early Shift: the candidate acquisition / polling subsystem of           *)
(* roproxy_client.py (RoProxyClient) as a state machine.                   *)
(*                                                                         *)
(* Time is a discrete clock `now` (one unit = one hour of utcnow()).       *)
(* The DuckDB tables are sets of rows; the connection is never put into a  *)
(* transaction by the code (no BEGIN / begin() anywhere), so every         *)
(* db.execute() statement is auto-committed when it returns and the        *)
(* trailing db.commit() finds nothing left to commit.                      *)
(*                                                                         *)
(* Three specifications share the variables:                               *)
(*   Spec         polls of two tracked universes following one another,    *)
(*                with the clock, store errors and crashes;                *)
(*   SpecFetch    one poll of up to MaxInput IDs, every kind of answer of  *)
(*                the metric endpoint, every max_concurrency argument;     *)
(*   SpecResolve  calls of get_top_universe_ids as the clock advances.     *)
(***************************************************************************)
EXTENDS Integers, Sequences, FiniteSets, TLC

VARIABLES
    now,              \* datetime.utcnow(), in hours
    games,            \* table games: rows (universe_id, name, ccu, timestamp)
    game_metadata,    \* table game_metadata: one row per universe_id
    max_concurrency,  \* self.max_concurrency
    pc,               \* position of poll_top_games
    universe_ids,     \* the argument of poll_top_games
    unique_ids,       \* local unique_ids
    timestamp,        \* local timestamp
    sem_value,        \* asyncio.Semaphore._value
    task,             \* per fetch(uid) coroutine: "pending" | "inflight" | "done"
    responses,        \* what the metric endpoint answered to each fetch
    snapshots,        \* results gathered so far, by position
    wpos,             \* position of the `for snapshot in snapshots` loop
    wstep,            \* next statement of the loop body
    error,            \* why poll_top_games raised: "none" | "fetch" | "store"
    pre_games,        \* the games table as it was when the poll began
    polls,            \* number of poll_top_games calls begun
    cache_ttl,        \* self.cache_ttl, in hours
    cache,            \* the file at self.cache_path
    rpc,              \* position of get_top_universe_ids
    limit,            \* the argument of get_top_universe_ids
    endpoint,         \* index into POPULAR_ENDPOINTS of the endpoint being paged
    cursor,           \* local cursor of _fetch_top_universes
    top_ids,          \* local universe_ids of _fetch_top_universes
    seen,             \* local seen of _fetch_top_universes
    contacted,        \* the endpoints this call has sent a request to
    result,           \* what get_top_universe_ids returned
    via,              \* the layer that answered: "cache" | "discovery" | "fallback"
    call_cache,       \* the cache file as the call found it
    call_time,        \* the clock when the call read the cache
    calls,            \* number of get_top_universe_ids calls begun
    youtube_videos,   \* table youtube_videos: one row per video_id
    spikes_table,     \* whether table mechanic_spikes has been created
    mechanic_spikes,  \* table mechanic_spikes: rows in the order of their INSERT
    det,              \* per detect_mechanic_spikes run: its position and locals
    last_call         \* the last call of a text function or of
                      \* get_historical_spikes: arguments and result

detectVars == <<youtube_videos, spikes_table, mechanic_spikes, det, last_call>>

resolveVars == <<cache_ttl, cache, rpc, limit, endpoint, cursor, top_ids, seen,
                 contacted, result, via, call_cache, call_time, calls>>

pollVars == <<games, game_metadata, max_concurrency, pc, universe_ids, unique_ids,
              timestamp, sem_value, task, responses, snapshots, wpos, wstep, error,
              pre_games, polls>>

(***************************************************************************)
(* Bounds of the model.                                                    *)
(***************************************************************************)
MaxTime == 1
MaxPolls == 2
MaxInput == 2
MaxUniverse == 2

UniverseIds == 1..MaxUniverse
MaxConcurrencyArg == 2

DEFAULT_CACHE_HOURS == 4

DEFAULT_CONCURRENCY == 12

\* max_concurrency arguments a client is constructed with (values <= 0 included)
ConcurrencyArgs == -1..MaxConcurrencyArg

(***************************************************************************)
(* Helpers for sequences.                                                  *)
(***************************************************************************)
Range(s) == {s[i] : i \in DOMAIN s}

SeqsUpTo(S, n) == UNION {[1..k -> S] : k \in 0..n}

Max(a, b) == IF a >= b THEN a ELSE b

\* the two universes polled again and again when polls follow one another
TrackedIds == {1, 2}

TrackedInputs == SeqsUpTo(TrackedIds, Cardinality(TrackedIds))

Min(a, b) == IF a <= b THEN a ELSE b

\* list(dict.fromkeys(...)): drop repeated elements, keeping first occurrences
RECURSIVE DedupFrom(_, _)
DedupFrom(s, acc) ==
    IF s = <<>> THEN acc
    ELSE IF Head(s) \in Range(acc) THEN DedupFrom(Tail(s), acc)
         ELSE DedupFrom(Tail(s), Append(acc, Head(s)))

\* a deduplication that reads the list from its end
DedupFromEnd(s) == DedupFrom([i \in DOMAIN s |-> s[Len(s) + 1 - i]], <<>>)

Dedup(s) == DedupFrom(s, <<>>)

(***************************************************************************)
(* The metric-fetch endpoint's answers.  A JSON value is a record tagged   *)
(* with its type; an object carries the function of its members.           *)
(***************************************************************************)
None == "None"

JObject(f) == [type |-> "object", fields |-> f]
JArray(items) == [type |-> "array", items |-> items]
JNull == [type |-> "null"]
JString == [type |-> "string"]
NotJson == [type |-> "invalid"]

\* dict.get(key, default)
Get(obj, key, default) ==
    IF key \in DOMAIN obj.fields THEN obj.fields[key] ELSE default

GameA ==
    JObject([name |-> "Alpha", playing |-> 5, rootPlaceId |-> "place",
             description |-> "desc", creator |-> JObject([id |-> "cid", name |-> "cname"]),
             genre |-> "genre", visits |-> "visits"])

\* an entry with no optional member and no creator
GameB == JObject([name |-> "Beta", playing |-> 9])

HttpResponse(status, body) == [kind |-> "http", status |-> status, body |-> body]

\* session.get() raising: connection error, or asyncio.TimeoutError after 20 s
NetworkError == [kind |-> "raise", status |-> 0, body |-> NotJson]

Responses ==
    { NetworkError,
      HttpResponse(500, JObject([data |-> JArray(<<GameA>>)])),
      HttpResponse(200, NotJson),
      HttpResponse(200, JArray(<<>>)),
      HttpResponse(200, JObject(<<>>)),
      HttpResponse(200, JObject([data |-> JArray(<<>>)])),
      HttpResponse(200, JObject([data |-> JArray(<<JString>>)])),
      HttpResponse(200, JObject([data |-> JArray(<<GameA>>)])),
      HttpResponse(200, JObject([data |-> JArray(<<GameB, GameA>>)])) }

\* the answers drawn while whole polls are interleaved with crashes and re-polls
PollResponses ==
    { NetworkError,
      HttpResponse(200, JObject([data |-> JArray(<<GameA>>)])) }

NoResponse == [kind |-> "none", status |-> 0, body |-> NotJson]

(***************************************************************************)
(* UniverseSnapshot and _fetch_universe_snapshot.                          *)
(***************************************************************************)
UniverseSnapshot(uid, name, ccu, rp, desc, cid, cname, genre, visits) ==
    [universe_id |-> uid, name |-> name, ccu |-> ccu, root_place_id |-> rp,
     description |-> desc, creator_id |-> cid, creator_name |-> cname,
     genre |-> genre, visits |-> visits]

\* the final `return UniverseSnapshot(... "Unknown", 0, None ...)`
DefaultSnapshot(uid) ==
    UniverseSnapshot(uid, "Unknown", 0, None, None, None, None, None, None)

Truthy(v) ==
    CASE v.type = "null" -> FALSE
      [] v.type = "array" -> Len(v.items) > 0
      [] v.type = "object" -> DOMAIN v.fields # {}
      [] OTHER -> TRUE

\* the body of the try block: "return" with a snapshot, "raise" (an exception
\* of class Exception), or "fall" through to the statement after the try
TryFetch(uid, resp) ==
    IF resp.kind = "raise" THEN [outcome |-> "raise"]
    ELSE IF resp.status # 200 THEN [outcome |-> "fall"]
    ELSE IF resp.body.type = "invalid" THEN [outcome |-> "raise"]
    ELSE IF resp.body.type # "object" THEN [outcome |-> "raise"]
    ELSE LET data == Get(resp.body, "data", JNull) IN
         IF ~Truthy(data) THEN [outcome |-> "fall"]
         ELSE IF data.type # "array" THEN [outcome |-> "raise"]
         ELSE LET game == data.items[1] IN
              IF game.type # "object" THEN [outcome |-> "raise"]
              ELSE LET got == Get(game, "creator", JNull)
                       creator == IF Truthy(got) THEN got ELSE JObject(<<>>)
                   IN  [outcome |-> "return",
                        value |-> UniverseSnapshot(
                            uid,
                            Get(game, "name", "Unknown"),
                            Get(game, "playing", 0),
                            Get(game, "rootPlaceId", None),
                            Get(game, "description", None),
                            Get(creator, "id", None),
                            Get(creator, "name", None),
                            Get(game, "genre", None),
                            Get(game, "visits", None))]

\* a handler that lets the exception go
FetchUniverseSnapshotNoCatch(uid, resp) ==
    LET r == TryFetch(uid, resp) IN
    IF r.outcome = "return" THEN [raised |-> FALSE, value |-> r.value]
    ELSE [raised |-> r.outcome = "raise", value |-> DefaultSnapshot(uid)]

\* `except Exception` swallows the exception; both "raise" and "fall" end in
\* the default snapshot.  raised = TRUE would be an exception leaving the call.
FetchUniverseSnapshot(uid, resp) ==
    LET r == TryFetch(uid, resp) IN
    IF r.outcome = "return" THEN [raised |-> FALSE, value |-> r.value]
    ELSE [raised |-> FALSE, value |-> DefaultSnapshot(uid)]

\* an acquire on a semaphore of the fetch's own, not the shared one
SemAcquireOwn(v) == v

\* a release that returns no permit
SemReleaseLost(v) == v

\* asyncio.Semaphore: acquire() takes a permit, release() returns it
SemAcquire(v) == v - 1

SemRelease(v) == v + 1

(***************************************************************************)
(* The statements poll_top_games and _upsert_metadata execute.             *)
(***************************************************************************)
GamesRow(snapshot, ts) ==
    [universe_id |-> snapshot.universe_id, name |-> snapshot.name,
     ccu |-> snapshot.ccu, timestamp |-> ts]

MetadataRow(snapshot, ts) ==
    [universe_id |-> snapshot.universe_id, name |-> snapshot.name,
     root_place_id |-> snapshot.root_place_id, creator_id |-> snapshot.creator_id,
     creator_name |-> snapshot.creator_name, description |-> snapshot.description,
     genre |-> snapshot.genre, visits |-> snapshot.visits,
     last_seen_ccu |-> snapshot.ccu, updated_at |-> ts]

\* a plain INSERT, with no key to replace on
InsertMetadataNoReplace(tbl, row) == tbl \cup {row}

\* INSERT OR IGNORE: the row of the same key is kept
InsertOrIgnoreMetadata(tbl, row) ==
    IF \E m \in tbl : m.universe_id = row.universe_id THEN tbl ELSE tbl \cup {row}

\* INSERT OR REPLACE INTO game_metadata: the row of the same key is replaced
InsertOrReplaceMetadata(tbl, row) ==
    {m \in tbl : m.universe_id # row.universe_id} \cup {row}

\* a DELETE that forgets the timestamp condition
DeleteGamesAllOfUniverse(tbl, uid, ts) == {r \in tbl : r.universe_id # uid}

\* DELETE FROM games WHERE universe_id = ? AND timestamp = ?
DeleteGames(tbl, uid, ts) ==
    {r \in tbl : ~(r.universe_id = uid /\ r.timestamp = ts)}

\* PRIMARY KEY (universe_id, timestamp) of games
GamesKeyTaken(tbl, row) ==
    \E r \in tbl : r.universe_id = row.universe_id /\ r.timestamp = row.timestamp

\* a timestamp read again when the row is written
InsertTimestampAtWrite == now

\* the timestamp bound to the INSERT INTO games statement
InsertTimestamp == timestamp

(***************************************************************************)
(* The candidate source resolver: cache file, discovery endpoints, seeds.  *)
(***************************************************************************)
MaxClock == 3
MaxCalls == 2
MaxLimit == 3
MaxCacheHours == 2

\* the 46 seed IDs are pairwise different; they stand here as 901..946
FallbackCount == 46

FALLBACK_UNIVERSES == [i \in 1..FallbackCount |-> 900 + i]

\* games.roproxy.com, then games.roblox.com
POPULAR_ENDPOINTS == <<1, 2>>

Limits == 0..MaxLimit

\* sequence[:n] for n >= 0
Take(s, n) == SubSeq(s, 1, Min(n, Len(s)))

MissingFile == [state |-> "missing"]
UnparsableFile == [state |-> "unparsable"]

\* text that json.loads parses to a value that is no object: [], null, 3, "x"
NonObjectFile == [state |-> "nonobject"]

\* a JSON object; generated_at = None stands for an absent member
CacheJson(generated_at, ids) ==
    [state |-> "json", has_generated_at |-> generated_at # <<>>,
     generated_at |-> IF generated_at # <<>> THEN generated_at[1] ELSE 0,
     universe_ids |-> ids]

\* an expiry test that drops the entry already at the age of the TTL
ExpiredAtBoundary(age, ttl) == age >= ttl

\* a reversed expiry test
ExpiredReversed(age, ttl) == age < ttl

\* datetime.utcnow() - generated_at > self.cache_ttl
Expired(age, ttl) == age > ttl

NoList == [some |-> FALSE, ids |-> <<>>, raised |-> FALSE]

\* _load_cached_universes: None, or the list of the file, or an exception:
\* only json.JSONDecodeError is caught, so cached.get on a value that is no
\* dict leaves the function as an AttributeError
LoadCachedUniverses(file, clock, ttl) ==
    IF file.state = "missing" THEN NoList
    ELSE IF file.state = "unparsable" THEN NoList
    ELSE IF file.state = "nonobject" THEN [some |-> FALSE, ids |-> <<>>, raised |-> TRUE]
    ELSE IF ~file.has_generated_at THEN NoList
    ELSE IF Expired(clock - file.generated_at, ttl) THEN NoList
    ELSE [some |-> TRUE, ids |-> file.universe_ids, raised |-> FALSE]

\* a save that leaves generated_at out of the payload
SaveWithoutGeneratedAt(ids, clock) == CacheJson(<<>>, Dedup(ids))

\* _save_cached_universes
SaveCachedUniverses(ids, clock) == CacheJson(<<clock>>, Dedup(ids))

\* the discovery endpoints' answers; an entry's id 0 stands for a missing or
\* null member
Entry(id, universeId) == JObject([id |-> id, universeId |-> universeId])

Page(key, items, cursorKey, c) ==
    JObject((key :> JArray(items)) @@ (cursorKey :> c))

DiscoveryResponses ==
    { NetworkError,
      HttpResponse(503, Page("data", <<Entry(1, 0)>>, "nextPageCursor", "c1")),
      HttpResponse(200, NotJson),
      HttpResponse(200, JArray(<<>>)),
      HttpResponse(200, Page("data", <<>>, "nextPageCursor", "c1")),
      HttpResponse(200, Page("data", <<Entry(1, 0), Entry(2, 0)>>, "nextPageCursor", "c1")),
      HttpResponse(200, Page("data", <<Entry(2, 0), Entry(0, 3)>>, "nextPageCursor", "")),
      HttpResponse(200, Page("universes", <<Entry(1, 0), Entry(1, 0), Entry(0, 0)>>,
                             "nextPageToken", "c2")),
      HttpResponse(200, Page("data", <<Entry(3, 0), JString, Entry(1, 0)>>,
                             "nextPageCursor", "c1")) }

\* a membership test that never finds the ID
NeverSeen(ids, uid) == FALSE

\* `if uid in seen`
AlreadySeen(ids, uid) == uid \in ids

\* the `for entry in data` loop: the IDs collected, and whether it raised
RECURSIVE ForEntries(_, _, _, _)
ForEntries(items, ids, sn, lim) ==
    IF items = <<>> THEN [ids |-> ids, seen |-> sn, raised |-> FALSE]
    ELSE LET entry == Head(items) IN
         IF entry.type # "object" THEN [ids |-> ids, seen |-> sn, raised |-> TRUE]
         ELSE LET a == Get(entry, "id", 0)
                  uid == IF a # 0 THEN a ELSE Get(entry, "universeId", 0)
              IN  IF uid = 0 THEN ForEntries(Tail(items), ids, sn, lim)
                  ELSE IF AlreadySeen(sn, uid) THEN ForEntries(Tail(items), ids, sn, lim)
                  ELSE IF Len(ids) + 1 >= lim
                       THEN [ids |-> Append(ids, uid), seen |-> sn \cup {uid},
                             raised |-> FALSE]
                       ELSE ForEntries(Tail(items), Append(ids, uid), sn \cup {uid}, lim)

\* one pass of the `while len(universe_ids) < limit` body: how the pass ends
\* ("continue" with the loop, "break" out of it, or "raise") and the locals
OnePage(resp, ids, sn, cur, lim) ==
    IF resp.kind = "raise" THEN [end |-> "raise", ids |-> ids, seen |-> sn, cursor |-> cur]
    ELSE IF resp.status # 200 THEN [end |-> "break", ids |-> ids, seen |-> sn, cursor |-> cur]
    ELSE IF resp.body.type # "object"
         THEN [end |-> "raise", ids |-> ids, seen |-> sn, cursor |-> cur]
    ELSE LET d1 == Get(resp.body, "data", JNull)
             data == IF Truthy(d1) THEN d1 ELSE Get(resp.body, "universes", JNull)
         IN
         IF ~Truthy(data) THEN [end |-> "break", ids |-> ids, seen |-> sn, cursor |-> cur]
         ELSE LET r == ForEntries(data.items, ids, sn, lim)
                  c1 == Get(resp.body, "nextPageCursor", "")
                  c == IF c1 # "" THEN c1 ELSE Get(resp.body, "nextPageToken", "")
              IN
              IF r.raised THEN [end |-> "raise", ids |-> r.ids, seen |-> r.seen, cursor |-> cur]
              ELSE IF c = "" THEN [end |-> "break", ids |-> r.ids, seen |-> r.seen, cursor |-> c]
              ELSE IF Len(r.ids) < lim
                   THEN [end |-> "continue", ids |-> r.ids, seen |-> r.seen, cursor |-> c]
                   ELSE [end |-> "break", ids |-> r.ids, seen |-> r.seen, cursor |-> c]

\* a handler that lets the exception go
DiscoveryErrorEscapes(end) == end = "raise"

\* `except Exception as exc: print(...)`: no exception leaves the endpoint loop
DiscoveryErrorPropagates(end) == FALSE

\* the seed list returned whole
FallbackWhole(lim) == FALLBACK_UNIVERSES

\* FALLBACK_UNIVERSES[:limit]
FallbackResult(lim) == Take(FALLBACK_UNIVERSES, lim)

ResolveIdle ==
    /\ rpc = "idle"
    /\ limit = 0
    /\ endpoint = 0
    /\ cursor = ""
    /\ top_ids = <<>>
    /\ seen = {}
    /\ contacted = {}
    /\ result = <<>>
    /\ via = "none"
    /\ call_cache = MissingFile
    /\ call_time = 0
    /\ calls = 0

ResolveTick ==
    /\ now < MaxClock
    /\ now' = now + 1
    /\ UNCHANGED pollVars
    /\ UNCHANGED resolveVars
    /\ UNCHANGED detectVars

\* lines 176-181: what get_top_universe_ids does with the discovery result
Resolved(ids, lim) ==
    IF ids # <<>>
    THEN /\ cache' = SaveCachedUniverses(ids, now)
         /\ result' = ids
         /\ via' = "discovery"
    ELSE /\ cache' = SaveCachedUniverses(FALLBACK_UNIVERSES, now)
         /\ result' = FallbackResult(lim)
         /\ via' = "fallback"

\* a hit only on a list that holds as many IDs as are asked for
CachedCoversLimit(ids, lim) == ids # <<>> /\ Len(ids) >= lim

\* line 173, `if cached:`: any list that is not empty is returned from
CachedSuffices(ids, lim) == ids # <<>>

\* a hit that writes the time of the hit into the file
RefreshedOnHit(file, clock) == [file EXCEPT !.generated_at = clock]

\* lines 172-174: `if cached: return cached[:limit]` writes no file
AfterHit(file, clock) == file

\* get_top_universe_ids up to its first request: the cache, and with limit <= 0
\* the whole call, since no pass of the paging loop is entered
GetTopUniverseIds(lim) ==
    /\ rpc \in {"idle", "returned", "raised"}
    /\ calls < MaxCalls
    /\ calls' = calls + 1
    /\ limit' = lim
    /\ call_cache' = cache
    /\ call_time' = now
    /\ contacted' = {}
    /\ top_ids' = <<>>
    /\ seen' = {}
    /\ cursor' = ""
    /\ LET cached == LoadCachedUniverses(cache, now, cache_ttl) IN
       IF cached.raised
       THEN /\ result' = <<>>
            /\ via' = "none"
            /\ rpc' = "raised"
            /\ endpoint' = 0
            /\ UNCHANGED cache
       ELSE IF cached.some /\ CachedSuffices(cached.ids, lim)
       THEN /\ result' = Take(cached.ids, lim)
            /\ via' = "cache"
            /\ rpc' = "returned"
            /\ endpoint' = 0
            /\ cache' = AfterHit(cache, now)
       ELSE IF lim <= 0
            THEN /\ Resolved(<<>>, lim)
                 /\ rpc' = "returned"
                 /\ endpoint' = 0
            ELSE /\ rpc' = "discover"
                 /\ endpoint' = 1
                 /\ result' = <<>>
                 /\ via' = "none"
                 /\ UNCHANGED cache
    /\ UNCHANGED <<now, cache_ttl>>
    /\ UNCHANGED pollVars
    /\ UNCHANGED detectVars

\* an endpoint loop without the `if universe_ids: break`
EveryEndpoint(ids, e) == e < Len(POPULAR_ENDPOINTS)

\* `for endpoint in POPULAR_ENDPOINTS` with `if universe_ids: break`: whether
\* the endpoint after e is tried
NextEndpoint(ids, e) == ids = <<>> /\ e < Len(POPULAR_ENDPOINTS)

\* one request of _fetch_top_universes and everything up to the next request
PageRequest(resp) ==
    /\ rpc = "discover"
    /\ contacted' = contacted \cup {endpoint}
    /\ LET p == OnePage(resp, top_ids, seen, cursor, limit) IN
       /\ top_ids' = p.ids
       /\ seen' = p.seen
       /\ IF DiscoveryErrorPropagates(p.end)
          THEN /\ rpc' = "raised"
               /\ UNCHANGED <<endpoint, cursor, cache, result, via>>
          ELSE IF p.end = "continue"
          THEN /\ cursor' = p.cursor
               /\ UNCHANGED <<rpc, endpoint, cache, result, via>>
          ELSE IF NextEndpoint(p.ids, endpoint)
          THEN /\ endpoint' = endpoint + 1
               /\ cursor' = ""
               /\ UNCHANGED <<rpc, cache, result, via>>
          ELSE /\ Resolved(p.ids, limit)
               /\ rpc' = "returned"
               /\ cursor' = p.cursor
               /\ UNCHANGED endpoint
    /\ UNCHANGED <<now, cache_ttl, limit, call_cache, call_time, calls>>
    /\ UNCHANGED pollVars
    /\ UNCHANGED detectVars

(***************************************************************************)
(* mechanic_detector.py.  Text the detector inspects character by          *)
(* character is a sequence of one-character strings.  DOUBLE values are    *)
(* fractions of integers kept in lowest terms: the quotients and products  *)
(* of the small integers drawn here are compared as the doubles are.       *)
(***************************************************************************)
Abs(a) == IF a < 0 THEN -a ELSE a

RECURSIVE Gcd(_, _)
Gcd(a, b) == IF b = 0 THEN a ELSE Gcd(b, a % b)

\* the fraction n / d, d # 0
Rat(n, d) ==
    LET g == Gcd(Abs(n), Abs(d))
        sgn == IF d < 0 THEN -1 ELSE 1
    IN  [num |-> sgn * (n \div g), den |-> sgn * (d \div g)]

RatLess(a, b) == a.num * b.den < b.num * a.den

RatTimes(a, k) == Rat(a.num * k, a.den)

GROWTH_THRESHOLD == Rat(1, 4)

MENTION_LOOKBACK_HOURS == 48

\* INTERVAL 7 DAY, in hours
SevenDays == 168

StrUnknown == <<"U", "n", "k", "n", "o", "w", "n">>

\* a games row as the detector reads it
SnapshotRow(uid, name, ccu, ts) ==
    [universe_id |-> uid, name |-> name, ccu |-> ccu, timestamp |-> ts]

\* ROW_NUMBER() OVER (PARTITION BY universe_id ORDER BY timestamp DESC) = 1:
\* the rows no other row of the same universe is later than
RowNumberOne(rows) ==
    {r \in rows : \A q \in rows : q.universe_id = r.universe_id => q.timestamp <= r.timestamp}

\* CTE filtered_latest
FilteredLatest(tbl) == RowNumberOne(tbl)

\* a baseline window that takes every row
WeekAgoAnyAge(tbl, clock) == tbl

\* CTE week_ago_snapshot: WHERE timestamp <= current_timestamp - INTERVAL 7 DAY
WeekAgoSnapshot(tbl, clock) == {r \in tbl : r.timestamp <= clock - SevenDays}

\* a baseline taken from the oldest row of the window of each universe
FilteredOldest(tbl, clock) ==
    {r \in WeekAgoSnapshot(tbl, clock) :
        \A q \in WeekAgoSnapshot(tbl, clock) :
            q.universe_id = r.universe_id => r.timestamp <= q.timestamp}

\* CTE filtered_week_ago
FilteredWeekAgo(tbl, clock) == RowNumberOne(WeekAgoSnapshot(tbl, clock))

\* SQL NULL in the growth_rate column
NullRate == [num |-> 0, den |-> 0]

\* a growth measured against the current metric
GrowthOverCurrent(cur_ccu, prev_ccu) ==
    IF cur_ccu = 0 THEN NullRate ELSE Rat(cur_ccu - prev_ccu, cur_ccu)

\* ((cur.ccu - prev.ccu) * 1.0) / NULLIF(prev.ccu, 0)
GrowthRate(cur_ccu, prev_ccu) ==
    IF prev_ccu = 0 THEN NullRate ELSE Rat(cur_ccu - prev_ccu, prev_ccu)

\* a filter that lets any baseline through
AnyBaseline(prev_ccu) == TRUE

\* WHERE prev.ccu > 0
BaselinePositive(prev_ccu) == prev_ccu > 0

\* COALESCE(meta.name, cur.name); a universe has at most one metadata row
GameName(meta, cur) ==
    IF \E m \in meta : m.universe_id = cur.universe_id
    THEN (CHOOSE m \in meta : m.universe_id = cur.universe_id).name
    ELSE cur.name

\* the rows of the final SELECT of _read_growth_candidates
GrowthRows(tbl, meta, clock) ==
    { [universe_id |-> cur.universe_id,
       game_name |-> GameName(meta, cur),
       current_ccu |-> cur.ccu,
       week_ago_ccu |-> prev.ccu,
       growth_rate |-> GrowthRate(cur.ccu, prev.ccu),
       current_timestamp |-> cur.timestamp] :
      <<cur, prev>> \in
         {pair \in FilteredLatest(tbl) \X FilteredWeekAgo(tbl, clock) :
             /\ pair[2].universe_id = pair[1].universe_id
             /\ BaselinePositive(pair[2].ccu)} }

\* a test that also drops the row standing exactly at the threshold
SkippedAtThreshold(growth_rate, growth_threshold) ==
    growth_rate = NullRate \/ ~RatLess(growth_threshold, growth_rate)

\* `if growth_rate is None or growth_rate < growth_threshold: continue`
Skipped(growth_rate, growth_threshold) ==
    growth_rate = NullRate \/ RatLess(growth_rate, growth_threshold)

\* the dict appended for a row that is kept
GrowthCandidate(row) ==
    [universe_id |-> row.universe_id,
     game_name |-> IF row.game_name = <<>> THEN StrUnknown ELSE row.game_name,
     current_ccu |-> row.current_ccu,
     week_ago_ccu |-> row.week_ago_ccu,
     growth_percent |-> RatTimes(row.growth_rate, 100),
     current_timestamp |-> row.current_timestamp]

\* the orders in which fetchall() may hand over a set of rows
Orderings(S) == {s \in [1..Cardinality(S) -> S] : Range(s) = S}

\* _read_growth_candidates: the lists it may return
ReadGrowthCandidates(tbl, meta, clock, growth_threshold) ==
    LET kept == {row \in GrowthRows(tbl, meta, clock) :
                    ~Skipped(row.growth_rate, growth_threshold)}
    IN  {[i \in DOMAIN order |-> GrowthCandidate(order[i])] : order \in Orderings(kept)}

(***************************************************************************)
(* Text: str.lower(), the `in` operator, str.strip(), slices.              *)
(***************************************************************************)
LowerOf ==
    [A |-> "a", B |-> "b", C |-> "c", D |-> "d", E |-> "e", F |-> "f", G |-> "g",
     H |-> "h", I |-> "i", J |-> "j", K |-> "k", L |-> "l", M |-> "m", N |-> "n",
     O |-> "o", P |-> "p", Q |-> "q", R |-> "r", S |-> "s", T |-> "t", U |-> "u",
     V |-> "v", W |-> "w", X |-> "x", Y |-> "y", Z |-> "z"]

\* str.lower()
Lower(s) == [i \in DOMAIN s |-> IF s[i] \in DOMAIN LowerOf THEN LowerOf[s[i]] ELSE s[i]]

\* needle in hay
In(needle, hay) ==
    \E i \in 0..(Len(hay) - Len(needle)) : SubSeq(hay, i + 1, i + Len(needle)) = needle

Whitespace == {" ", "\t", "\n", "\r"}

\* the positions of s that hold a character outside chars
Outside(s, chars) == {i \in DOMAIN s : s[i] \notin chars}

Least(S) == CHOOSE x \in S : \A y \in S : x <= y

Greatest(S) == CHOOSE x \in S : \A y \in S : y <= x

\* s without its leading characters that are in chars
DropLeading(s, chars) ==
    IF Outside(s, chars) = {} THEN <<>>
    ELSE SubSeq(s, Least(Outside(s, chars)), Len(s))

\* str.strip(): leading and trailing whitespace removed
Strip(s) ==
    IF Outside(s, Whitespace) = {} THEN <<>>
    ELSE SubSeq(s, Least(Outside(s, Whitespace)), Greatest(Outside(s, Whitespace)))

\* s[i:], i counted from 0
From(s, i) == SubSeq(s, i + 1, Len(s))

(***************************************************************************)
(* _extract_mechanic and MECHANIC_REGEX.                                   *)
(***************************************************************************)
StrNew == <<"n", "e", "w">>

StrSecret == <<"s", "e", "c", "r", "e", "t">>

StrUpdate == <<"u", "p", "d", "a", "t", "e">>

StrIntroducing == <<"i", "n", "t", "r", "o", "d", "u", "c", "i", "n", "g">>

StrAdded == <<"a", "d", "d", "e", "d">>

StrUnlock == <<"u", "n", "l", "o", "c", "k">>

StrMechanic == <<"m", "e", "c", "h", "a", "n", "i", "c">>

StrFeature == <<"f", "e", "a", "t", "u", "r", "e">>

StrQuest == <<"q", "u", "e", "s", "t">>

StrCode == <<"c", "o", "d", "e">>

StrEvent == <<"e", "v", "e", "n", "t">>

\* the alternatives of MECHANIC_REGEX, in the order the pattern tries them
Triggers ==
    <<StrNew, StrSecret, StrUpdate, StrIntroducing, StrAdded, StrUnlock, StrMechanic,
      StrFeature, StrQuest, StrCode>>

\* the slice bound of candidate[:120] and title[:120]
LabelLimit == 120

\* [:\-\s]
Separators == {":", "-"} \cup Whitespace

\* (?i): whether alternative k matches the text at offset i (counted from 0)
TriggerAt(title, i, k) ==
    /\ i + Len(Triggers[k]) <= Len(title)
    /\ Lower(SubSeq(title, i + 1, i + Len(Triggers[k]))) = Triggers[k]

\* [:\-\s]* is greedy: every separator that follows is consumed
SkipSeparators(s) == DropLeading(s, Separators)

\* (.*): `.` matches any character but a newline
UpToNewline(s) ==
    LET newlines == {i \in DOMAIN s : s[i] = "\n"} IN
    IF newlines = {} THEN s ELSE SubSeq(s, 1, Least(newlines) - 1)

\* MECHANIC_REGEX.search(title): no match, or group 1 of the leftmost match
RegexSearch(title) ==
    LET hits == {i \in 0..Len(title) : \E k \in DOMAIN Triggers : TriggerAt(title, i, k)}
    IN  IF hits = {} THEN [match |-> FALSE, group1 |-> <<>>]
        ELSE LET i == Least(hits)
                 k == CHOOSE a \in DOMAIN Triggers :
                         /\ TriggerAt(title, i, a)
                         /\ \A b \in DOMAIN Triggers : TriggerAt(title, i, b) => a <= b
             IN  [match |-> TRUE,
                  group1 |-> UpToNewline(SkipSeparators(From(title, i + Len(Triggers[k]))))]

\* a label that is the whole title when a trigger is found
ExtractWholeTitle(title) == Take(title, LabelLimit)

\* _extract_mechanic
ExtractMechanic(title) ==
    LET m == RegexSearch(title) IN
    IF m.match THEN Take(Strip(m.group1), LabelLimit)
    ELSE Take(title, LabelLimit)

(***************************************************************************)
(* _video_matches_game and rapidfuzz.fuzz.partial_ratio.                   *)
(***************************************************************************)
KEYWORD_HINTS ==
    <<StrNew, StrUpdate, StrSecret, StrMechanic, StrCode, StrFeature, StrQuest, StrEvent>>

FUZZ_THRESHOLD == 82

\* one row of the longest-common-subsequence table: row[j] is the length for
\* the characters of a read so far and the first j characters of b
RECURSIVE LcsRow(_, _, _, _)
LcsRow(prev, c, b, row) ==
    IF Len(row) = Len(b) THEN row
    ELSE LET j == Len(row) + 1
             diag == IF j = 1 THEN 0 ELSE prev[j - 1]
             left == IF j = 1 THEN 0 ELSE row[j - 1]
         IN  LcsRow(prev, c, b,
                    Append(row, IF c = b[j] THEN diag + 1 ELSE Max(prev[j], left)))

RECURSIVE LcsRows(_, _, _)
LcsRows(a, b, prev) ==
    IF a = <<>> THEN prev ELSE LcsRows(Tail(a), b, LcsRow(prev, Head(a), b, <<>>))

\* length of the longest common subsequence
Lcs(a, b) ==
    IF a = <<>> \/ b = <<>> THEN 0
    ELSE LcsRows(a, b, [j \in 1..Len(b) |-> 0])[Len(b)]

\* Indel.normalized_similarity * 100: 100 * (1 - (|a| + |b| - 2 * lcs) / (|a| + |b|))
IndelRatio(a, b) ==
    IF Len(a) + Len(b) = 0 THEN Rat(100, 1)
    ELSE Rat(200 * Lcs(a, b), Len(a) + Len(b))

\* the windows of s2 that s1 is aligned with: prefixes shorter than s1, the
\* windows as long as s1, the suffixes no longer than s1; a window is tried only
\* if its last (first, for a suffix) character occurs in s1
Windows(s1, s2) ==
    LET len1 == Len(s1)
        len2 == Len(s2)
    IN  IF len1 = 0 THEN {} ELSE
        {SubSeq(s2, 1, i) : i \in {k \in 1..(len1 - 1) : s2[k] \in Range(s1)}}
        \cup {SubSeq(s2, i + 1, i + len1) :
                 i \in {k \in 0..(len2 - len1 - 1) : s2[k + len1] \in Range(s1)}}
        \cup {From(s2, i) : i \in {k \in (len2 - len1)..(len2 - 1) : s2[k + 1] \in Range(s1)}}

\* the best score of s1 over the windows of s2, Len(s1) <= Len(s2)
PartialRatioImpl(s1, s2) ==
    LET scores == {IndelRatio(s1, w) : w \in Windows(s1, s2)} IN
    IF scores = {} THEN Rat(0, 1)
    ELSE CHOOSE x \in scores : \A y \in scores : ~RatLess(x, y)

\* fuzz.partial_ratio(s1, s2)
PartialRatio(s1, s2) ==
    IF s1 = <<>> /\ s2 = <<>> THEN Rat(100, 1)
    ELSE LET shorter == IF Len(s1) <= Len(s2) THEN s1 ELSE s2
             longer == IF Len(s1) <= Len(s2) THEN s2 ELSE s1
             res == PartialRatioImpl(shorter, longer)
         IN  IF res # Rat(100, 1) /\ Len(s1) = Len(s2)
             THEN LET res2 == PartialRatioImpl(longer, shorter) IN
                  IF RatLess(res, res2) THEN res2 ELSE res
             ELSE res

\* a keyword test that is never met
NoKeywordIn(video_title, k) == FALSE

\* `keyword in video_title.lower()`
KeywordIn(video_title, k) == In(KEYWORD_HINTS[k], Lower(video_title))

\* the `for keyword in KEYWORD_HINTS` loop, from keyword k on
RECURSIVE KeywordLoop(_, _, _)
KeywordLoop(game_name, video_title, k) ==
    IF k > Len(KEYWORD_HINTS) THEN FALSE
    ELSE IF KeywordIn(video_title, k) /\ In(Lower(game_name), Lower(video_title)) THEN TRUE
    ELSE KeywordLoop(game_name, video_title, k + 1)

\* _video_matches_game
VideoMatchesGame(game_name, video_title) ==
    LET score == PartialRatio(Lower(game_name), Lower(video_title)) IN
    IF ~RatLess(score, Rat(FUZZ_THRESHOLD, 1)) THEN TRUE
    ELSE KeywordLoop(game_name, video_title, 1)

(***************************************************************************)
(* detect_mechanic_spikes.                                                 *)
(***************************************************************************)
MaxRuns == 2
MaxWait == 1
MaxExtra == 10
MaxVideos == 2

\* the processes that run the detector
Detectors == {"a", "b"}

\* the offset from UTC, in hours, of the time zone in which the database
\* sessions of a process convert between TIMESTAMP and TIMESTAMP WITH TIME
\* ZONE (the zone of the system unless set otherwise)
TimeZones == {-1, 0, 1}

\* pc, the arguments and the locals of a run; `before` keeps what the run
\* before it read (empty for the first run); time_zone is the zone of the
\* database sessions of the process, UTC here
IdleRun ==
    [pc |-> "idle", lookback_hours |-> 0, growth_threshold |-> Rat(0, 1),
     persist |-> FALSE, started |-> 0, candidates |-> <<>>, since |-> 0,
     videos |-> <<>>, ci |-> 0, vi |-> 0, spikes |-> <<>>, ppos |-> 0, runs |-> 0,
     before |-> <<>>, time_zone |-> 0]

\* a process whose database sessions are in the zone of offset z
IdleRunIn(z) == [IdleRun EXCEPT !.time_zone = z]

\* no text function has been called; the arguments the call will be made with
Pending(game_name, title) == [op |-> "none", game_name |-> game_name, title |-> title]

NoCall == Pending(<<>>, <<>>)

DetectIdle ==
    /\ youtube_videos = {}
    /\ spikes_table = FALSE
    /\ mechanic_spikes = <<>>
    /\ det = [p \in Detectors |-> IdleRun]
    /\ last_call = NoCall

\* a read that empties the table it read
AfterDestructiveRead(tbl) == {}

\* a SELECT leaves the table it read as it is
AfterSelect(tbl) == tbl

\* the clock that the query of _get_growth_candidates compares column timestamp
\* with.  The column is TIMESTAMP and holds datetime.utcnow() without a zone;
\* current_timestamp is TIMESTAMP WITH TIME ZONE, so the comparison casts the
\* column, reading its values as wall time of the session's zone: a value t
\* becomes the instant t - z, and t - z <= clock - 7 days is
\* t <= (clock + z) - 7 days
\* a session that reads TIMESTAMP values as UTC whatever its zone
SessionClockUTC(clock, z) == clock

SessionClock(clock, z) == clock + z

\* lines 246-250: connect, _read_growth_candidates, return [] on no candidate
DetectStart(p, lookback_hours, growth_threshold, persist) ==
    /\ det[p].pc \in {"idle", "returned", "raised"}
    /\ det[p].runs < MaxRuns
    /\ \E candidates \in ReadGrowthCandidates(games, game_metadata,
                                               SessionClock(now, det[p].time_zone),
                                               growth_threshold) :
          det' = [det EXCEPT ![p] =
                    [pc |-> IF candidates = <<>> THEN "returned" ELSE "videos",
                     lookback_hours |-> lookback_hours,
                     growth_threshold |-> growth_threshold,
                     persist |-> persist,
                     started |-> now,
                     candidates |-> candidates,
                     since |-> 0,
                     videos |-> <<>>,
                     ci |-> 0,
                     vi |-> 0,
                     spikes |-> <<>>,
                     ppos |-> 0,
                     runs |-> det[p].runs + 1,
                     time_zone |-> det[p].time_zone,
                     before |-> IF det[p].runs = 0 THEN <<>>
                                ELSE <<[started |-> det[p].started,
                                        growth_threshold |-> det[p].growth_threshold,
                                        candidates |-> det[p].candidates]>>]]
    /\ games' = AfterSelect(games)
    /\ UNCHANGED <<now, game_metadata, youtube_videos, spikes_table, mechanic_spikes, last_call>>
    /\ UNCHANGED <<max_concurrency, pc, universe_ids, unique_ids, timestamp, sem_value,
                   task, responses, snapshots, wpos, wstep, error, pre_games, polls>>
    /\ UNCHANGED resolveVars

\* a lookback that takes every video
SinceEver(clock, lookback_hours) == 0

\* datetime.now(timezone.utc) - timedelta(hours=lookback_hours)
Since(clock, lookback_hours) == clock - lookback_hours

\* _fetch_recent_videos: WHERE published_at >= ?
RecentVideos(tbl, since) ==
    { [video_id |-> row.video_id, channel_title |-> row.channel_title,
       title |-> row.title, published_at |-> row.published_at,
       view_count |-> row.view_count] :
      row \in {v \in tbl : v.published_at >= since} }

\* a run that persists whatever the caller asked for
AfterLoopsPersisting(persist, spikes) ==
    IF spikes # <<>> THEN "ensure" ELSE "returned"

\* what follows the loops: `if persist and spikes`, db.close(), return spikes
AfterLoops(persist, spikes) ==
    IF persist /\ spikes # <<>> THEN "ensure" ELSE "returned"

\* lines 252-255: since, _fetch_recent_videos, spikes = []
FetchRecentVideos(p) ==
    /\ det[p].pc = "videos"
    /\ LET since == Since(now, det[p].lookback_hours) IN
       \E order \in Orderings(RecentVideos(youtube_videos, since)) :
          det' = [det EXCEPT ![p].since = since,
                             ![p].videos = order,
                             ![p].spikes = <<>>,
                             ![p].ci = IF order = <<>> THEN 0 ELSE 1,
                             ![p].vi = IF order = <<>> THEN 0 ELSE 1,
                             ![p].pc = IF order = <<>>
                                       THEN AfterLoops(det[p].persist, <<>>)
                                       ELSE "correlate"]
    /\ UNCHANGED <<now, youtube_videos, spikes_table, mechanic_spikes, last_call>>
    /\ UNCHANGED pollVars
    /\ UNCHANGED resolveVars

StrUrl == <<"h", "t", "t", "p", "s", ":", "/", "/", "y", "o", "u", "t", "u", "b", "e",
            ".", "c", "o", "m", "/", "w", "a", "t", "c", "h", "?", "v", "=">>

\* a detection time copied from the mention
DetectedAtPublished(clock, video) == video.published_at

\* detected_at=datetime.now(timezone.utc)
DetectedAt(clock, video) == clock

\* a spike whose two metrics changed places
SpikeWithSwappedMetrics(candidate, video, title, clock) ==
    [universe_id |-> candidate.universe_id,
     game_name |-> candidate.game_name,
     current_ccu |-> candidate.week_ago_ccu,
     week_ago_ccu |-> candidate.current_ccu,
     growth_percent |-> candidate.growth_percent,
     published_at |-> video.published_at,
     mechanic |-> ExtractMechanic(title),
     video_title |-> title,
     video_url |-> StrUrl \o video.video_id,
     channel_title |-> video.channel_title,
     detected_at |-> clock]

\* MechanicSpike(...) of lines 266-278
MechanicSpike(candidate, video, title, clock) ==
    [universe_id |-> candidate.universe_id,
     game_name |-> candidate.game_name,
     current_ccu |-> candidate.current_ccu,
     week_ago_ccu |-> candidate.week_ago_ccu,
     growth_percent |-> candidate.growth_percent,
     published_at |-> video.published_at,
     mechanic |-> ExtractMechanic(title),
     video_title |-> title,
     video_url |-> StrUrl \o video.video_id,
     channel_title |-> video.channel_title,
     detected_at |-> DetectedAt(clock, video)]

\* an append that keeps one spike per universe
AppendOncePerUniverse(spikes, spike) ==
    IF \E k \in DOMAIN spikes : spikes[k].universe_id = spike.universe_id THEN spikes
    ELSE Append(spikes, spike)

\* spikes.append(...)
SpikesAppend(spikes, spike) == Append(spikes, spike)

\* one pass of the inner loop body (lines 259-279) and the step to the next pair
Correlate(p) ==
    /\ det[p].pc = "correlate"
    /\ LET r == det[p]
           candidate == r.candidates[r.ci]
           video == r.videos[r.vi]
           title == video.title
           spikes == IF title = <<>> THEN r.spikes
                     ELSE IF ~VideoMatchesGame(candidate.game_name, title) THEN r.spikes
                     ELSE SpikesAppend(r.spikes, MechanicSpike(candidate, video, title, now))
       IN  det' = [det EXCEPT
                     ![p].spikes = spikes,
                     ![p].vi = IF r.vi < Len(r.videos) THEN r.vi + 1
                               ELSE IF r.ci < Len(r.candidates) THEN 1 ELSE r.vi,
                     ![p].ci = IF r.vi < Len(r.videos) THEN r.ci
                               ELSE IF r.ci < Len(r.candidates) THEN r.ci + 1 ELSE r.ci,
                     ![p].pc = IF r.vi < Len(r.videos) \/ r.ci < Len(r.candidates)
                               THEN "correlate"
                               ELSE AfterLoops(r.persist, spikes)]
    /\ UNCHANGED <<now, youtube_videos, spikes_table, mechanic_spikes, last_call>>
    /\ UNCHANGED pollVars
    /\ UNCHANGED resolveVars

\* _ensure_spikes_table: CREATE TABLE IF NOT EXISTS mechanic_spikes, commit
EnsureSpikesTable(p) ==
    /\ det[p].pc = "ensure"
    /\ spikes_table' = TRUE
    /\ det' = [det EXCEPT ![p].pc = "insert", ![p].ppos = 1]
    /\ UNCHANGED <<now, youtube_videos, mechanic_spikes, last_call>>
    /\ UNCHANGED pollVars
    /\ UNCHANGED resolveVars

\* The greatest value of a column of type INTEGER, 2^31 - 1.  The checker's
\* integers end there too, so the IDs of the model are scaled: the IDs up to
\* IntegerMax stand for the universe IDs that fit the type (994732206), the ID
\* above it for those that do not (4924922222; games.universe_id is BIGINT).
IntegerMax == 2

\* a universe ID that column mechanic_spikes.universe_id cannot hold
WideUniverse == IntegerMax + 1

\* the cast of a bound value to INTEGER succeeds
FitsInteger(v) == v <= IntegerMax

\* a table that keeps its newest row only
InsertOverwriting(tbl, row) == <<row>>

\* INSERT INTO mechanic_spikes: the table has no key; the row is added
InsertInto(tbl, row) == Append(tbl, row)

\* the row INSERT stores for a spike: column detected_at is TIMESTAMP and
\* spike.detected_at is datetime.now(timezone.utc), a datetime with a zone,
\* which is stored as the wall time of its instant in the session's zone;
\* published_at was read from a TIMESTAMP column and is stored as it is
StoredSpike(spike, z) == [spike EXCEPT !.detected_at = @ + z]

\* one INSERT INTO mechanic_spikes of the `for spike in spikes` loop; a
\* universe_id out of the range of INTEGER is a conversion error, which leaves
\* _persist_spikes and detect_mechanic_spikes
InsertSpike(p) ==
    /\ det[p].pc = "insert"
    /\ LET spike == det[p].spikes[det[p].ppos] IN
       IF FitsInteger(spike.universe_id)
       THEN /\ mechanic_spikes' = InsertInto(mechanic_spikes,
                                             StoredSpike(spike, det[p].time_zone))
            /\ det' = [det EXCEPT
                         ![p].ppos = IF det[p].ppos < Len(det[p].spikes)
                                     THEN det[p].ppos + 1 ELSE det[p].ppos,
                         ![p].pc = IF det[p].ppos < Len(det[p].spikes)
                                   THEN "insert" ELSE "commit"]
       ELSE /\ det' = [det EXCEPT ![p].pc = "raised"]
            /\ UNCHANGED mechanic_spikes
    /\ UNCHANGED <<now, youtube_videos, spikes_table, last_call>>
    /\ UNCHANGED pollVars
    /\ UNCHANGED resolveVars

\* db.commit() of _persist_spikes, then db.close() and return spikes
PersistDone(p) ==
    /\ det[p].pc = "commit"
    /\ det' = [det EXCEPT ![p].pc = "returned"]
    /\ UNCHANGED <<now, youtube_videos, spikes_table, mechanic_spikes, last_call>>
    /\ UNCHANGED pollVars
    /\ UNCHANGED resolveVars

\* a run that swallows the error and returns
PersistErrorSwallowed == "returned"

\* where a run is after a statement of _persist_spikes raised: nothing in
\* _persist_spikes or detect_mechanic_spikes catches it
PersistErrorRaised == "raised"

\* a statement of _persist_spikes raises: the store is unreachable or corrupted
PersistError(p) ==
    /\ det[p].pc \in {"ensure", "insert", "commit"}
    /\ det' = [det EXCEPT ![p].pc = PersistErrorRaised]
    /\ UNCHANGED <<now, youtube_videos, spikes_table, mechanic_spikes, last_call>>
    /\ UNCHANGED pollVars
    /\ UNCHANGED resolveVars

\* an ORDER BY detected_at that puts the oldest row first
OldestFirst(tbl, S) == {i \in S : \A j \in S : tbl[i].detected_at <= tbl[j].detected_at}

\* ORDER BY detected_at DESC: the rows of S that may come first; rows of equal
\* detected_at come in any order
NewestFirst(tbl, S) == {i \in S : \A j \in S : tbl[i].detected_at >= tbl[j].detected_at}

\* ORDER BY detected_at DESC LIMIT n over the rows at positions S: every
\* sequence of rows the query may return
RECURSIVE OrderedLimit(_, _, _)
OrderedLimit(tbl, S, n) ==
    IF n <= 0 \/ S = {} THEN {<<>>}
    ELSE UNION { {<<tbl[i]>> \o rest : rest \in OrderedLimit(tbl, S \ {i}, n - 1)} :
                 i \in NewestFirst(tbl, S) }

\* a datetime with tzinfo UTC at instant t, as datetime.now(timezone.utc) is
Aware(t) == [wall |-> t, tzinfo |-> "UTC"]

\* a datetime without tzinfo, as a TIMESTAMP column is fetched
Naive(w) == [wall |-> w, tzinfo |-> "none"]

\* a spike as detect_mechanic_spikes returns it: its detected_at is
\* datetime.now(timezone.utc)
AsReturned(spike) == [spike EXCEPT !.detected_at = Aware(@)]

\* MechanicSpike(universe_id=row[0], ..., detected_at=row[10]): the fields in
\* the order of the SELECT list, the TIMESTAMP detected_at without a zone
SpikeOfRow(row) == [row EXCEPT !.detected_at = Naive(@)]

\* get_historical_spikes(limit): connect, _ensure_spikes_table, the SELECT,
\* close, and the list of MechanicSpike built from the rows
GetHistoricalSpikes(lim) ==
    /\ spikes_table' = TRUE
    /\ \E rows \in OrderedLimit(mechanic_spikes, DOMAIN mechanic_spikes, lim) :
          last_call' = [op |-> "get_historical_spikes", limit |-> lim,
                        result |-> [k \in DOMAIN rows |-> SpikeOfRow(rows[k])]]
    /\ UNCHANGED <<now, youtube_videos, mechanic_spikes, det>>
    /\ UNCHANGED pollVars
    /\ UNCHANGED resolveVars

\* the clock moves while the detector is used
DetectTick ==
    /\ now < SevenDays + 1 + MaxWait
    /\ now' = now + 1
    /\ UNCHANGED detectVars
    /\ UNCHANGED pollVars
    /\ UNCHANGED resolveVars

(***************************************************************************)
(* Initial state: a constructed client on an empty database.               *)
(***************************************************************************)
\* no poll_top_games call has been made
NoPollYet ==
    /\ pc = "idle"
    /\ universe_ids = <<>>
    /\ unique_ids = <<>>
    /\ timestamp = 0
    /\ sem_value = 0
    /\ task = <<>>
    /\ responses = <<>>
    /\ snapshots = <<>>
    /\ wpos = 0
    /\ wstep = "none"
    /\ error = "none"
    /\ pre_games = {}
    /\ polls = 0

PollIdle ==
    /\ games = {}
    /\ game_metadata = {}
    /\ NoPollYet

Init ==
    /\ now = 0
    /\ PollIdle
    /\ max_concurrency = Max(1, DEFAULT_CONCURRENCY)
    /\ ResolveIdle
    /\ cache_ttl = DEFAULT_CACHE_HOURS
    /\ cache = MissingFile
    /\ DetectIdle

(***************************************************************************)
(* The clock.                                                              *)
(***************************************************************************)
Tick ==
    /\ now < MaxTime
    /\ now' = now + 1
    /\ UNCHANGED pollVars
    /\ UNCHANGED resolveVars
    /\ UNCHANGED detectVars

(***************************************************************************)
(* poll_top_games.                                                         *)
(***************************************************************************)
Resting == pc \in {"idle", "done", "skipped", "failed", "crashed"}

\* poll_top_games ends without returning: an exception leaves it, or the
\* process is gone; its locals are gone with it
Abandoned(how, why) ==
    /\ pc' = how
    /\ error' = why
    /\ universe_ids' = <<>>
    /\ unique_ids' = <<>>
    /\ timestamp' = 0
    /\ sem_value' = 0
    /\ task' = <<>>
    /\ responses' = <<>>
    /\ snapshots' = <<>>
    /\ wpos' = 0
    /\ wstep' = "none"
    /\ pre_games' = {}

\* lines 245-252: dedup, early return on no IDs, timestamp, semaphore
PollStart(ids) ==
    /\ Resting
    /\ polls < MaxPolls
    /\ polls' = polls + 1
    /\ universe_ids' = ids
    /\ unique_ids' = Dedup(ids)
    /\ error' = "none"
    /\ pre_games' = games
    /\ snapshots' = <<>>
    /\ wpos' = 0
    /\ wstep' = "none"
    /\ IF Dedup(ids) = <<>>
       THEN /\ pc' = "skipped"
            /\ task' = <<>>
            /\ responses' = <<>>
            /\ UNCHANGED <<timestamp, sem_value>>
       ELSE /\ pc' = "fetching"
            /\ timestamp' = now
            /\ sem_value' = max_concurrency
            /\ task' = [i \in 1..Len(Dedup(ids)) |-> "pending"]
            /\ responses' = [i \in 1..Len(Dedup(ids)) |-> NoResponse]
    /\ UNCHANGED <<now, games, game_metadata, max_concurrency>>
    /\ UNCHANGED resolveVars
    /\ UNCHANGED detectVars

\* `async with semaphore`: Semaphore.acquire()
FetchAcquire(i) ==
    /\ pc = "fetching"
    /\ i \in DOMAIN task
    /\ task[i] = "pending"
    /\ sem_value > 0
    /\ sem_value' = SemAcquire(sem_value)
    /\ task' = [task EXCEPT ![i] = "inflight"]
    /\ UNCHANGED <<now, games, game_metadata, max_concurrency, pc, universe_ids,
                   unique_ids, timestamp, responses, snapshots, wpos, wstep, error,
                   pre_games, polls>>
    /\ UNCHANGED resolveVars
    /\ UNCHANGED detectVars

\* the request returns; _fetch_universe_snapshot ends and the semaphore is released
FetchComplete(i, resp) ==
    /\ pc = "fetching"
    /\ i \in DOMAIN task
    /\ task[i] = "inflight"
    /\ LET r == FetchUniverseSnapshot(unique_ids[i], resp) IN
       IF r.raised
       THEN Abandoned("failed", "fetch")
       ELSE /\ sem_value' = SemRelease(sem_value)
            /\ task' = [task EXCEPT ![i] = "done"]
            /\ responses' = [responses EXCEPT ![i] = resp]
            /\ snapshots' = snapshots @@ (i :> r.value)
            /\ UNCHANGED <<pc, error, universe_ids, unique_ids, timestamp, wpos, wstep,
                           pre_games>>
    /\ UNCHANGED <<now, games, game_metadata, max_concurrency, polls>>
    /\ UNCHANGED resolveVars
    /\ UNCHANGED detectVars

\* a gather that returns with the first fetch of the batch
FirstFetched == task[1] = "done"

\* `await asyncio.gather(*(fetch(uid) for uid in unique_ids))` has every result
AllFetched == \A i \in DOMAIN task : task[i] = "done"

\* asyncio.gather returns once every fetch has; the write loop begins
GatherDone ==
    /\ pc = "fetching"
    /\ AllFetched
    /\ pc' = "writing"
    /\ wpos' = 1
    /\ wstep' = "upsert"
    /\ UNCHANGED <<now, games, game_metadata, max_concurrency, universe_ids,
                   unique_ids, timestamp, sem_value, task, responses, snapshots,
                   error, pre_games, polls>>
    /\ UNCHANGED resolveVars
    /\ UNCHANGED detectVars

\* self._upsert_metadata(snapshot)
UpsertMetadata ==
    /\ pc = "writing"
    /\ wstep = "upsert"
    /\ game_metadata' = InsertOrReplaceMetadata(game_metadata,
                                                MetadataRow(snapshots[wpos], now))
    /\ wstep' = "delete"
    /\ UNCHANGED <<now, games, max_concurrency, pc, universe_ids, unique_ids,
                   timestamp, sem_value, task, responses, snapshots, wpos, error,
                   pre_games, polls>>
    /\ UNCHANGED resolveVars
    /\ UNCHANGED detectVars

\* DELETE FROM games ...
DeleteSnapshotRow ==
    /\ pc = "writing"
    /\ wstep = "delete"
    /\ games' = DeleteGames(games, snapshots[wpos].universe_id, timestamp)
    /\ wstep' = "insert"
    /\ UNCHANGED <<now, game_metadata, max_concurrency, pc, universe_ids, unique_ids,
                   timestamp, sem_value, task, responses, snapshots, wpos, error,
                   pre_games, polls>>
    /\ UNCHANGED resolveVars
    /\ UNCHANGED detectVars

\* INSERT INTO games ...; a taken primary key is a constraint error
InsertSnapshotRow ==
    /\ pc = "writing"
    /\ wstep = "insert"
    /\ LET row == GamesRow(snapshots[wpos], InsertTimestamp) IN
       IF GamesKeyTaken(games, row)
       THEN /\ Abandoned("failed", "store")
            /\ UNCHANGED games
       ELSE /\ games' = games \cup {row}
            /\ IF wpos < Len(unique_ids)
               THEN /\ wpos' = wpos + 1
                    /\ wstep' = "upsert"
               ELSE /\ wpos' = wpos
                    /\ wstep' = "commit"
            /\ UNCHANGED <<pc, error, universe_ids, unique_ids, timestamp, sem_value,
                           task, responses, snapshots, pre_games>>
    /\ UNCHANGED <<now, game_metadata, max_concurrency, polls>>
    /\ UNCHANGED resolveVars
    /\ UNCHANGED detectVars

\* self.db.commit(): nothing is pending in auto-commit mode
Commit ==
    /\ pc = "writing"
    /\ wstep = "commit"
    /\ pc' = "done"
    /\ wstep' = "none"
    /\ UNCHANGED <<now, games, game_metadata, max_concurrency, universe_ids,
                   unique_ids, timestamp, sem_value, task, responses, snapshots,
                   wpos, error, pre_games, polls>>
    /\ UNCHANGED resolveVars
    /\ UNCHANGED detectVars

\* a statement raises (the store is unreachable or corrupted); nothing catches it
StoreError ==
    /\ pc = "writing"
    /\ Abandoned("failed", "store")
    /\ UNCHANGED <<now, games, game_metadata, max_concurrency, polls>>
    /\ UNCHANGED resolveVars
    /\ UNCHANGED detectVars

\* the process dies; what the store holds stays
Crash ==
    /\ pc \in {"fetching", "writing"}
    /\ Abandoned("crashed", error)
    /\ UNCHANGED <<now, games, game_metadata, max_concurrency, polls>>
    /\ UNCHANGED resolveVars
    /\ UNCHANGED detectVars

Next ==
    \/ Tick
    \/ \E ids \in TrackedInputs : PollStart(ids)
    \/ \E i \in DOMAIN task : FetchAcquire(i)
    \/ \E i \in DOMAIN task, resp \in PollResponses : FetchComplete(i, resp)
    \/ GatherDone
    \/ UpsertMetadata
    \/ DeleteSnapshotRow
    \/ InsertSnapshotRow
    \/ Commit
    \/ StoreError
    \/ Crash

vars == <<now, games, game_metadata, max_concurrency, pc, universe_ids, unique_ids,
          timestamp, sem_value, task, responses, snapshots, wpos, wstep, error,
          pre_games, polls, cache_ttl, cache, rpc, limit, endpoint, cursor, top_ids,
          seen, contacted, result, via, call_cache, call_time, calls,
          youtube_videos, spikes_table, mechanic_spikes, det, last_call>>

Spec == Init /\ [][Next]_vars

(***************************************************************************)
(* Calls of get_top_universe_ids as the clock advances.                    *)
(***************************************************************************)
InitResolve ==
    /\ now = 0
    /\ PollIdle
    /\ max_concurrency = Max(1, DEFAULT_CONCURRENCY)
    /\ ResolveIdle
    /\ cache_ttl \in 1..MaxCacheHours
    /\ cache \in {MissingFile, UnparsableFile, NonObjectFile, CacheJson(<<>>, <<1, 2>>)}
    /\ DetectIdle

ResolveNext ==
    \/ ResolveTick
    \/ \E lim \in Limits : GetTopUniverseIds(lim)
    \/ \E resp \in DiscoveryResponses : PageRequest(resp)

SpecResolve == InitResolve /\ [][ResolveNext]_vars

(***************************************************************************)
(* Calls of get_top_universe_ids on a cache file written at time 0.        *)
(***************************************************************************)
InitCached ==
    /\ now = 0
    /\ PollIdle
    /\ max_concurrency = Max(1, DEFAULT_CONCURRENCY)
    /\ ResolveIdle
    /\ cache_ttl \in 1..MaxCacheHours
    /\ cache = SaveCachedUniverses(<<1, 2, 3>>, 0)
    /\ DetectIdle

SpecCached == InitCached /\ [][ResolveNext]_vars

(***************************************************************************)
(* One call of get_top_universe_ids whose requests all return.             *)
(***************************************************************************)
InitPaging ==
    /\ InitResolve
    /\ cache = MissingFile

PagingNext ==
    \/ \E lim \in Limits : calls = 0 /\ GetTopUniverseIds(lim)
    \/ \E resp \in DiscoveryResponses : PageRequest(resp)

\* every request of the paging loop returns: session.get answers or raises
\* within http_timeout
SpecPaging ==
    /\ InitPaging
    /\ [][PagingNext]_vars
    /\ WF_vars(\E resp \in DiscoveryResponses : PageRequest(resp))

(***************************************************************************)
(* One poll, answered by every kind of response the metric endpoint has.   *)
(***************************************************************************)
\* an input that repeats an ID after another one
RepeatedInput == <<2, 1, 2>>

FetchNext ==
    \/ \E ids \in SeqsUpTo(UniverseIds, MaxInput) \cup {RepeatedInput} :
          polls = 0 /\ PollStart(ids)
    \/ \E i \in DOMAIN task : FetchAcquire(i)
    \/ \E i \in DOMAIN task, resp \in Responses : FetchComplete(i, resp)
    \/ GatherDone
    \/ UpsertMetadata
    \/ DeleteSnapshotRow
    \/ InsertSnapshotRow
    \/ Commit

InitFetch ==
    /\ now = 0
    /\ PollIdle
    /\ max_concurrency \in {Max(1, m) : m \in ConcurrencyArgs}
    /\ ResolveIdle
    /\ cache_ttl = DEFAULT_CACHE_HOURS
    /\ cache = MissingFile
    /\ DetectIdle

SpecFetch == InitFetch /\ [][FetchNext]_vars

\* a step of the poll under way
PollStep ==
    \/ \E i \in DOMAIN task : FetchAcquire(i)
    \/ \E i \in DOMAIN task, resp \in Responses : FetchComplete(i, resp)
    \/ GatherDone
    \/ UpsertMetadata
    \/ DeleteSnapshotRow
    \/ InsertSnapshotRow
    \/ Commit

\* the event loop runs what is ready: every request returns or times out
\* (http_timeout), a coroutine waiting for a free permit is woken, and the
\* statements of the write loop return
SpecFetchLive == SpecFetch /\ WF_vars(PollStep)

(***************************************************************************)
(* The growth evaluator over every small snapshot table.                   *)
(***************************************************************************)
StrAdoptMe == <<"A", "d", "o", "p", "t", " ", "M", "e">>

StrPetSim == <<"P", "e", "t", " ", "S", "i", "m">>

\* the name a tracked universe is stored under
NameOf(uid) == IF uid = 1 THEN StrAdoptMe ELSE StrPetSim

\* the clock when the detector is first used
DetectTime == SevenDays + 1

\* how old a stored snapshot is then, in hours
SnapshotAges == {0, SevenDays - 1, SevenDays, SevenDays + 1}

CcuValues == {0, 4, 5}

NoRow == 0 - 1

\* the snapshot tables of universe 1: per age, no row or a row of any metric
FirstTables ==
    { {SnapshotRow(1, NameOf(1), f[age], DetectTime - age) :
          age \in {a \in SnapshotAges : f[a] # NoRow}} :
      f \in [SnapshotAges -> CcuValues \cup {NoRow}] }

\* the snapshot tables of universe 2
SecondTables ==
    { {},
      {SnapshotRow(2, NameOf(2), 10, DetectTime), SnapshotRow(2, NameOf(2), 5, 0)},
      {SnapshotRow(2, NameOf(2), 0, DetectTime), SnapshotRow(2, NameOf(2), 0 - 1, 0)} }

Thresholds == {Rat(0 - 1, 1), Rat(0, 1), Rat(1, 5), GROWTH_THRESHOLD, Rat(1, 1)}

\* the evaluator's processes have their database sessions in a zone of zones
InitGrowthIn(zones) ==
    /\ now = DetectTime
    /\ NoPollYet
    /\ game_metadata = {}
    /\ max_concurrency = Max(1, DEFAULT_CONCURRENCY)
    /\ ResolveIdle
    /\ cache_ttl = DEFAULT_CACHE_HOURS
    /\ cache = MissingFile
    /\ youtube_videos = {}
    /\ spikes_table = FALSE
    /\ mechanic_spikes = <<>>
    /\ \E z \in zones : det = [p \in Detectors |-> IdleRunIn(z)]
    /\ last_call = NoCall
    /\ \E t1 \in FirstTables, t2 \in SecondTables : games = t1 \cup t2

\* the sessions are in UTC
InitGrowth == InitGrowthIn({0})

GrowthNext ==
    \/ DetectTick
    \/ \E growth_threshold \in Thresholds :
          DetectStart("a", MENTION_LOOKBACK_HOURS, growth_threshold, TRUE)
    \/ FetchRecentVideos("a")

SpecGrowth == InitGrowth /\ [][GrowthNext]_vars

(***************************************************************************)
(* The evaluator in sessions of any time zone.                             *)
(***************************************************************************)
InitZone == InitGrowthIn(TimeZones)

\* evaluations at the default threshold and at one that lets every growth pass
ZoneNext ==
    \/ DetectTick
    \/ \E growth_threshold \in {Rat(0 - 1, 1), GROWTH_THRESHOLD} :
          DetectStart("a", MENTION_LOOKBACK_HOURS, growth_threshold, TRUE)
    \/ FetchRecentVideos("a")

SpecZone == InitZone /\ [][ZoneNext]_vars

(***************************************************************************)
(* The text functions applied to names and titles.                         *)
(***************************************************************************)
StrPetSimulatorX ==
    <<"P", "e", "t", " ", "S", "i", "m", "u", "l", "a", "t", "o", "r", " ", "X">>

StrBloxFruits == <<"B", "l", "o", "x", " ", "F", "r", "u", "i", "t", "s">>

StrBrookhaven == <<"B", "r", "o", "o", "k", "h", "a", "v", "e", "n">>

StrAdoptMeUpper == <<"A", "D", "O", "P", "T", " ", "M", "E">>

TitlePetSimulator ==
    <<"P", "e", "t", " ", "S", "i", "m", "u", "l", "a", "t", "o", "r", " ", "X", " ",
      "N", "e", "w", " ", "U", "p", "d", "a", "t", "e", "!">>

TitleAdoptMe ==
    <<"N", "e", "w", " ", "A", "d", "o", "p", "t", " ", "M", "e", " ", "S", "e", "c",
      "r", "e", "t", " ", "C", "o", "d", "e">>

TitleRandom ==
    <<"R", "a", "n", "d", "o", "m", " ", "G", "a", "m", "i", "n", "g", " ", "V", "i",
      "d", "e", "o">>

TitleBrookhaven ==
    <<"N", "E", "W", " ", "B", "r", "o", "o", "k", "h", "a", "v", "e", "n", " ", "U",
      "p", "d", "a", "t", "e", " ", "2", "0", "2", "5">>

TitleAdoptMi == <<"a", "d", "o", "p", "t", " ", "m", "i", " ", "t", "i", "p", "s">>

TitleAdaptMo == <<"n", "e", "w", " ", "a", "d", "a", "p", "t", " ", "m", "o">>

TitleBrokhaven ==
    <<"B", "r", "o", "k", "h", "a", "v", "e", "n", " ", "t", "o", "u", "r">>

TitleDragonQuest ==
    <<"N", "E", "W", " ", "D", "r", "a", "g", "o", "n", " ", "Q", "u", "e", "s", "t",
      " ", "U", "p", "d", "a", "t", "e", "!">>

TitlePetFusion ==
    <<"S", "e", "c", "r", "e", "t", " ", "P", "e", "t", " ", "F", "u", "s", "i", "o",
      "n", " ", "M", "e", "c", "h", "a", "n", "i", "c", " ", "F", "o", "u", "n", "d">>

TitleNewCode ==
    <<"U", "p", "d", "a", "t", "e", ":", " ", "N", "e", "w", " ", "C", "o", "d", "e",
      " ", "f", "o", "r", " ", "F", "r", "e", "e", " ", "I", "t", "e", "m", "s">>

TitleAmazing ==
    <<"B", "l", "o", "x", " ", "F", "r", "u", "i", "t", "s", " ", "I", "s", " ", "A",
      "m", "a", "z", "i", "n", "g">>

TitleRenewed == <<"R", "e", "n", "e", "w", "e", "d", " ", "h", "o", "p", "e">>

TitleBigUpdate == <<"B", "i", "g", " ", "u", "p", "d", "a", "t", "e">>

TitleSeparators ==
    <<"q", "u", "e", "s", "t", " ", "-", " ", ":", " ", "P", "e", "t", " ", "S", "i",
      "m", " ", "\t">>

TitleTwoLines == <<"x", "\n", "n", "e", "w", " ", "a", "\n", "b">>

\* titles longer than the label: with a trigger in front, and without any
TitleLongNew == <<"N", "e", "w", " ">> \o [i \in 1..(LabelLimit + MaxExtra) |-> "z"]

TitleLongPlain == [i \in 1..(LabelLimit + MaxExtra) |-> "z"]

GameNames ==
    {<<>>, StrAdoptMe, StrAdoptMeUpper, StrPetSim, StrPetSimulatorX, StrBloxFruits,
     StrBrookhaven, StrUnknown}

VideoTitles ==
    {<<>>, TitlePetSimulator, TitleAdoptMe, TitleRandom, TitleBrookhaven, TitleAdoptMi,
     TitleAdaptMo, TitleBrokhaven, TitleDragonQuest, TitlePetFusion, TitleNewCode,
     TitleAmazing, TitleRenewed, TitleBigUpdate, TitleSeparators, TitleTwoLines}

LongTitles == {TitleLongNew, TitleLongPlain}

\* _extract_mechanic(title)
CallExtractMechanic ==
    /\ last_call.op = "none"
    /\ last_call' = [op |-> "_extract_mechanic", game_name |-> last_call.game_name,
                     title |-> last_call.title,
                     result |-> ExtractMechanic(last_call.title)]
    /\ UNCHANGED <<now, youtube_videos, spikes_table, mechanic_spikes, det>>
    /\ UNCHANGED pollVars
    /\ UNCHANGED resolveVars

\* _video_matches_game(game_name, video_title)
CallVideoMatchesGame ==
    /\ last_call.op = "none"
    /\ last_call' = [op |-> "_video_matches_game", game_name |-> last_call.game_name,
                     title |-> last_call.title,
                     result |-> VideoMatchesGame(last_call.game_name, last_call.title)]
    /\ UNCHANGED <<now, youtube_videos, spikes_table, mechanic_spikes, det>>
    /\ UNCHANGED pollVars
    /\ UNCHANGED resolveVars

InitText ==
    /\ now = 0
    /\ PollIdle
    /\ max_concurrency = Max(1, DEFAULT_CONCURRENCY)
    /\ ResolveIdle
    /\ cache_ttl = DEFAULT_CACHE_HOURS
    /\ cache = MissingFile
    /\ youtube_videos = {}
    /\ spikes_table = FALSE
    /\ mechanic_spikes = <<>>
    /\ det = [p \in Detectors |-> IdleRun]
    /\ \E game_name \in GameNames, title \in VideoTitles \cup LongTitles :
          last_call = Pending(game_name, title)

TextNext ==
    \/ CallExtractMechanic
    \/ CallVideoMatchesGame

SpecText == InitText /\ [][TextNext]_vars

(***************************************************************************)
(* One detection run over each small store of snapshots and videos.        *)
(***************************************************************************)
StrDoors == <<"D", "o", "o", "r", "s">>

StrPiggy == <<"P", "i", "g", "g", "y">>

TitleDoors == <<"n", "e", "w", " ", "D", "o", "o", "r", "s", " ", "c", "o", "d", "e">>

TitleBoth == <<"P", "i", "g", "g", "y", " ", "v", "s", " ", "D", "o", "o", "r", "s">>

TitleNeither == <<"L", "a", "v", "a", " ", "r", "u", "n">>

StrChannel == <<"C", "h", "a", "n">>

VideoRow(video_id, title, published_at) ==
    [video_id |-> video_id, channel_title |-> StrChannel \o Tail(video_id),
     title |-> title, published_at |-> published_at, view_count |-> 0]

\* the rows the collector may have stored: a video on universe 1, one on both
\* universes published 48 hours before the run starts, one on no universe,
\* one without a title, one on universe 1 published 49 hours before
StoredVideos ==
    { VideoRow(<<"v", "1">>, TitleDoors, DetectTime - 1),
      VideoRow(<<"v", "2">>, TitleBoth, DetectTime - MENTION_LOOKBACK_HOURS),
      VideoRow(<<"v", "3">>, TitleNeither, DetectTime),
      VideoRow(<<"v", "4">>, <<>>, DetectTime),
      VideoRow(<<"v", "5">>, TitleDoors, DetectTime - MENTION_LOOKBACK_HOURS - 1) }

\* the snapshot tables: universe 1 grew by a quarter and universe 2 not at
\* all; or universe 1 shrank and universe 2 doubled
DetectTables ==
    { { SnapshotRow(1, StrDoors, 5, DetectTime), SnapshotRow(1, StrDoors, 4, 0),
        SnapshotRow(2, StrPiggy, 3, DetectTime), SnapshotRow(2, StrPiggy, 3, 1) },
      { SnapshotRow(1, StrDoors, 4, DetectTime), SnapshotRow(1, StrDoors, 5, 0),
        SnapshotRow(2, StrPiggy, 10, DetectTime), SnapshotRow(2, StrPiggy, 5, 1) } }

InitDetect ==
    /\ now = DetectTime
    /\ NoPollYet
    /\ max_concurrency = Max(1, DEFAULT_CONCURRENCY)
    /\ ResolveIdle
    /\ cache_ttl = DEFAULT_CACHE_HOURS
    /\ cache = MissingFile
    /\ games \in DetectTables
    /\ game_metadata = {}
    /\ youtube_videos \in {vs \in SUBSET StoredVideos : Cardinality(vs) <= MaxVideos}
    /\ spikes_table = FALSE
    /\ mechanic_spikes = <<>>
    /\ det = [p \in Detectors |-> IdleRun]
    /\ last_call = NoCall

DetectNext ==
    \/ DetectTick
    \/ \E growth_threshold \in {Rat(0, 1), GROWTH_THRESHOLD, Rat(1, 1)}, persist \in BOOLEAN :
          /\ det["a"].runs = 0
          /\ DetectStart("a", MENTION_LOOKBACK_HOURS, growth_threshold, persist)
    \/ FetchRecentVideos("a")
    \/ Correlate("a")
    \/ EnsureSpikesTable("a")
    \/ InsertSpike("a")
    \/ PersistDone("a")

SpecDetect == InitDetect /\ [][DetectNext]_vars

(***************************************************************************)
(* Two runs of the detector, one after the other, each with persist true   *)
(* or false, over every table and every set of videos of SpecDetect.       *)
(***************************************************************************)
InitAgain == InitDetect

AgainNext ==
    \/ DetectTick
    \/ \E growth_threshold \in {GROWTH_THRESHOLD, Rat(1, 1)}, persist \in BOOLEAN :
          /\ det["a"].runs <= 1
          /\ DetectStart("a", MENTION_LOOKBACK_HOURS, growth_threshold, persist)
    \/ FetchRecentVideos("a")
    \/ Correlate("a")
    \/ EnsureSpikesTable("a")
    \/ InsertSpike("a")
    \/ PersistDone("a")

SpecAgain == InitAgain /\ [][AgainNext]_vars

(***************************************************************************)
(* The spike store under several runs of the detector, two of them at the  *)
(* same time.                                                              *)
(***************************************************************************)
\* universe 1 grew by a quarter and universe 2 not at all
NarrowTable ==
    { SnapshotRow(1, StrDoors, 5, DetectTime), SnapshotRow(1, StrDoors, 4, 0),
      SnapshotRow(2, StrPiggy, 3, DetectTime), SnapshotRow(2, StrPiggy, 3, 1) }

\* the one universe that grew has an ID beyond INTEGER
WideTable ==
    { SnapshotRow(WideUniverse, StrDoors, 5, DetectTime),
      SnapshotRow(WideUniverse, StrDoors, 4, 0) }

StoreTables == {NarrowTable, WideTable}

\* two videos on the universe that grew
StoreVideos ==
    { VideoRow(<<"v", "1">>, TitleDoors, DetectTime - 1),
      VideoRow(<<"v", "2">>, TitleBoth, DetectTime - 2) }

InitStore ==
    /\ now = DetectTime
    /\ NoPollYet
    /\ max_concurrency = Max(1, DEFAULT_CONCURRENCY)
    /\ ResolveIdle
    /\ cache_ttl = DEFAULT_CACHE_HOURS
    /\ cache = MissingFile
    /\ games \in StoreTables
    /\ game_metadata = {}
    /\ youtube_videos = StoreVideos
    /\ spikes_table = FALSE
    /\ mechanic_spikes = <<>>
    /\ det = [p \in Detectors |-> IdleRun]
    /\ last_call = NoCall

\* process "a" runs the detector up to MaxRuns times, process "b" once, at
\* any time within one hour, all with persist=True
StoreNext ==
    \/ \E p \in Detectors :
          /\ p = "b" => det[p].runs = 0
          /\ DetectStart(p, MENTION_LOOKBACK_HOURS, GROWTH_THRESHOLD, TRUE)
    \/ \E p \in Detectors : FetchRecentVideos(p)
    \/ \E p \in Detectors : Correlate(p)
    \/ \E p \in Detectors : EnsureSpikesTable(p)
    \/ \E p \in Detectors : InsertSpike(p)
    \/ \E p \in Detectors : PersistDone(p)

SpecStore == InitStore /\ [][StoreNext]_vars

(***************************************************************************)
(* The spike store under runs of the detector and get_historical_spikes.   *)
(***************************************************************************)
InitHistory ==
    /\ InitStore
    /\ games = NarrowTable

\* one process runs the detector twice; the history is read at any time
HistoryNext ==
    \/ DetectTick
    \/ \E persist \in BOOLEAN :
          /\ det["a"].runs <= 1
          /\ DetectStart("a", MENTION_LOOKBACK_HOURS, GROWTH_THRESHOLD, persist)
    \/ FetchRecentVideos("a")
    \/ Correlate("a")
    \/ EnsureSpikesTable("a")
    \/ InsertSpike("a")
    \/ PersistDone("a")
    \/ \E lim \in Limits : GetHistoricalSpikes(lim)

SpecHistory == InitHistory /\ [][HistoryNext]_vars

(***************************************************************************)
(* Properties of poll_top_games.                                           *)
(***************************************************************************)
InFlight == {i \in DOMAIN task : task[i] = "inflight"}

BatchRow(k) == GamesRow(snapshots[k], timestamp)

\* C1: a poll that ends in a crash or a store write error leaves the games
\* table either as it was before the poll or holding every snapshot of the
\* batch, never only some of them.
C1_BatchAtomic ==
    [][ (pc \in {"fetching", "writing"} /\ pc' \in {"crashed", "failed"}) =>
            \/ games' = pre_games
            \/ \A k \in DOMAIN unique_ids :
                  k \in DOMAIN snapshots /\ BatchRow(k) \in games' ]_vars

\* C2: at every moment of a poll the number of fetches in flight is at most
\* max_concurrency, which is at least 1.
C2_BoundedFanOut ==
    /\ max_concurrency >= 1
    /\ Cardinality(InFlight) <= max_concurrency

\* C2 witness: a fetch waits for the only permit while another holds it.
C2_Witness ==
    /\ pc = "fetching"
    /\ Cardinality(InFlight) = max_concurrency
    /\ \E i \in DOMAIN task : task[i] = "pending"

\* a failed fetch, as the metric-fetch contract names the failures
FetchFailed(resp) ==
    \/ resp.kind = "raise"
    \/ resp.status # 200
    \/ resp.body.type # "object"
    \/ "data" \notin DOMAIN resp.body.fields
    \/ resp.body.fields.data.type # "array"
    \/ resp.body.fields.data.items = <<>>
    \/ resp.body.fields.data.items[1].type # "object"

FetchedGame(resp) == resp.body.fields.data.items[1].fields

C4_SharedTimestamp ==
    [][ /\ \A r \in games' \ games : r.timestamp = timestamp
        /\ (pc \in {"fetching", "writing"} /\ pc' \in {"fetching", "writing", "done"}) =>
              timestamp' = timestamp
        /\ (pc # "fetching" /\ pc' = "fetching") =>
              /\ timestamp' = now
              /\ \A i \in DOMAIN task' : task'[i] = "pending" ]_vars

\* C4 witness: a completed batch of two rows, written after the clock moved on.
C4_Witness ==
    /\ pc = "done"
    /\ Len(unique_ids) >= 2
    /\ now > timestamp
    /\ \A k \in DOMAIN unique_ids : BatchRow(k) \in games

\* C5: after a completed poll every distinct input ID has exactly one games row
\* at the batch timestamp and exactly one metadata row; and always, no two
\* games rows share (universe_id, timestamp) and no two metadata rows share
\* universe_id.
C5_OneRowPerId ==
    /\ pc = "done" =>
          \A uid \in Range(universe_ids) :
              /\ Cardinality({r \in games :
                      r.universe_id = uid /\ r.timestamp = timestamp}) = 1
              /\ Cardinality({m \in game_metadata : m.universe_id = uid}) = 1
    /\ \A r1, r2 \in games :
          (r1.universe_id = r2.universe_id /\ r1.timestamp = r2.timestamp) => r1 = r2
    /\ \A m1, m2 \in game_metadata :
          m1.universe_id = m2.universe_id => m1 = m2

\* C5 witness: a completed re-poll at the timestamp of rows already stored,
\* called with a repeated ID.
C5_Witness ==
    /\ pc = "done"
    /\ Len(universe_ids) > Len(unique_ids)
    /\ \E r \in pre_games : r.universe_id \in Range(unique_ids) /\ r.timestamp = timestamp
    /\ \E m \in game_metadata : m.universe_id \in Range(unique_ids) /\ m.updated_at > timestamp

\* C6: a step removes or changes a games row only while a poll writes, and
\* only a row stamped with that poll's timestamp; rows of other timestamps stay.
C6_AppendOnly ==
    [][ \A r \in games : r \notin games' => (pc = "writing" /\ r.timestamp = timestamp) ]_vars

\* C6 witness: a completed poll of an ID that has a row of an earlier timestamp.
C6_Witness ==
    /\ pc = "done"
    /\ \E r \in games : r.universe_id \in Range(unique_ids) /\ r.timestamp < timestamp

(***************************************************************************)
(* Properties of get_top_universe_ids.                                     *)
(***************************************************************************)
\* the first n elements of s, or all of s when it is shorter
Prefix(s, n) == [i \in 1..(IF n < Len(s) THEN n ELSE Len(s)) |-> s[i]]

\* the cache file the call found holds a resolved, non-empty ID list
EntryFound ==
    /\ call_cache.state = "json"
    /\ call_cache.has_generated_at
    /\ call_cache.universe_ids # <<>>

\* hours between the entry's generation and the call
EntryAge == call_time - call_cache.generated_at

NoDuplicates(s) == \A i, j \in DOMAIN s : s[i] = s[j] => i = j

\* C7: the layers answer in the order cache, discovery, static fallback.  A
\* call that finds an entry younger than the TTL returns that list cut to limit
\* and contacts no endpoint; discovery answers only with IDs it collected, and
\* the fallback answers only after every endpoint was asked.
C7_CacheFirst ==
    /\ (rpc = "discover" /\ EntryFound) => ~(EntryAge < cache_ttl)
    /\ rpc = "returned" =>
          /\ (EntryFound /\ EntryAge < cache_ttl) =>
                /\ via = "cache"
                /\ result = Prefix(call_cache.universe_ids, limit)
                /\ contacted = {}
          /\ via = "discovery" => (contacted # {} /\ result = top_ids /\ result # <<>>)
          /\ (via = "fallback" /\ limit >= 1) => contacted = Range(POPULAR_ENDPOINTS)

\* C7 witness: a cache hit that cut the cached list to limit.
C7_Witness ==
    /\ rpc = "returned"
    /\ via = "cache"
    /\ EntryAge < cache_ttl
    /\ limit >= 1
    /\ limit < Len(call_cache.universe_ids)
    /\ Len(result) = limit

\* C8 as stated: an entry generated N hours ago is honored iff N < T, so at
\* N = T it is expired.
C8_HonoredIffYounger ==
    (rpc # "idle" /\ EntryFound) => ((via = "cache") <=> (EntryAge < cache_ttl))

\* C8 as amended: an entry generated N hours ago is honored iff N <= T; at
\* N = T it is still honored, and it is expired only when N > T.
C8_HonoredIffNotOlder ==
    (rpc # "idle" /\ EntryFound) => ((via = "cache") <=> (EntryAge <= cache_ttl))

\* C8 witness: a cache hit on an entry exactly as old as the TTL.
C8_Witness ==
    /\ rpc = "returned"
    /\ EntryFound
    /\ EntryAge = cache_ttl
    /\ via = "cache"
    /\ result = Prefix(call_cache.universe_ids, limit)

\* C9: with limit >= 1, whatever the cache and the endpoints did, the list
\* returned has at most limit IDs, repeats none and is not empty.
C9_BoundedUniqueNonEmpty ==
    (rpc = "returned" /\ limit >= 1) =>
        /\ Len(result) <= limit
        /\ NoDuplicates(result)
        /\ result # <<>>

\* C9 witness: discovery collected IDs up to the limit over two endpoints.
C9_Witness ==
    /\ rpc = "returned"
    /\ via = "discovery"
    /\ contacted = {1, 2}
    /\ limit >= 2
    /\ Len(result) = limit

\* C10: a call that misses the cache and collects no ID from any endpoint
\* returns the seed list cut to limit and leaves the seed list in the cache
\* with a generation time of this call; no call that went to discovery ends in
\* an exception.
C10_StaticFallback ==
    /\ rpc = "raised" => contacted = {}
    /\ via = "fallback" => top_ids = <<>>
    /\ (rpc = "returned" /\ via # "cache" /\ top_ids = <<>>) =>
          /\ via = "fallback"
          /\ result = Prefix(FALLBACK_UNIVERSES, limit)
          /\ cache.state = "json"
          /\ cache.has_generated_at
          /\ cache.generated_at >= call_time
          /\ cache.generated_at <= now
          /\ cache.universe_ids = FALLBACK_UNIVERSES

\* C10 witness: both endpoints were asked, none gave an ID, the seeds answered.
C10_Witness ==
    /\ rpc = "returned"
    /\ via = "fallback"
    /\ contacted = {1, 2}
    /\ limit >= 1
    /\ Len(result) = limit

\* C11: a call answered by discovery or by the seeds leaves a cache file whose
\* generated_at is the time of the save and whose list is the resolved list in
\* order and without repeats; the next call, made while the file is within the
\* TTL, is a cache hit on that list.
C11_ResolutionCached ==
    /\ [](( rpc = "returned" /\ via \in {"discovery", "fallback"}) =>
            /\ cache.state = "json"
            /\ cache.has_generated_at
            /\ cache.generated_at >= call_time
            /\ cache.generated_at <= now
            /\ NoDuplicates(cache.universe_ids)
            /\ cache.universe_ids # <<>>
            /\ via = "discovery" => cache.universe_ids = result
            /\ via = "fallback" => cache.universe_ids = FALLBACK_UNIVERSES)
    /\ [][ ( /\ rpc' = "returned"
             /\ via' \in {"discovery", "fallback"}
             /\ (rpc # "returned" \/ calls' # calls) ) =>
                /\ cache'.state = "json"
                /\ cache'.has_generated_at
                /\ cache'.generated_at = now' ]_vars
    /\ [][ ( /\ rpc = "returned"
             /\ via \in {"discovery", "fallback"}
             /\ calls' = calls + 1
             /\ now - cache.generated_at <= cache_ttl ) =>
                /\ via' = "cache"
                /\ rpc' = "returned"
                /\ result' = Prefix(cache.universe_ids, limit')
                /\ contacted' = {} ]_vars

\* C11 witness: a second call hit the cache file the first call wrote after
\* discovery, some time later.
C11_Witness ==
    /\ rpc = "returned"
    /\ via = "cache"
    /\ calls = 2
    /\ EntryFound
    /\ call_cache.universe_ids # FALLBACK_UNIVERSES
    /\ call_time > call_cache.generated_at

\* the file lacks what a cache entry needs: it is missing, its text is no JSON,
\* or its JSON has no generated_at
MalformedFile(file) ==
    \/ file.state \in {"missing", "unparsable", "nonobject"}
    \/ file.state = "json" /\ ~file.has_generated_at

\* C12: a call that finds a missing file, unparsable JSON or JSON without
\* generated_at does not raise and is not answered from the cache: with
\* limit >= 1 it goes on to discovery.
C12_MalformedIsMiss ==
    (rpc # "idle" /\ MalformedFile(call_cache)) =>
        /\ rpc # "raised"
        /\ via # "cache"
        /\ (rpc = "returned" /\ limit >= 1) => contacted # {}

(***************************************************************************)
(* Properties of the growth evaluator.                                     *)
(***************************************************************************)
SnapshotsOf(uid) == {r \in games : r.universe_id = uid}

\* the snapshots of uid that are at least seven days old at time `at`
OldSnapshotsOf(uid, at) == {r \in SnapshotsOf(uid) : r.timestamp <= at - SevenDays}

LatestOf(rows) == CHOOSE r \in rows : \A q \in rows : q.timestamp <= r.timestamp

CurrentOf(uid) == LatestOf(SnapshotsOf(uid))

BaselineOf(uid, at) == LatestOf(OldSnapshotsOf(uid, at))

CandidateIds(p) == {det[p].candidates[i].universe_id : i \in DOMAIN det[p].candidates}

\* C13: every growth candidate carries the metric of its current and of its
\* baseline snapshot, the baseline metric is positive, and growth_percent is
\* exactly 100 * (current - baseline) / baseline; current 10, baseline 5 gives 100.
C13_GrowthExact ==
    \A p \in Detectors :
        \A i \in DOMAIN det[p].candidates :
            LET c == det[p].candidates[i]
                cur == CurrentOf(c.universe_id)
                base == BaselineOf(c.universe_id, det[p].started)
            IN  /\ base.ccu > 0
                /\ c.current_ccu = cur.ccu
                /\ c.week_ago_ccu = base.ccu
                /\ c.growth_percent.den > 0
                /\ c.growth_percent.num * base.ccu =
                      100 * (cur.ccu - base.ccu) * c.growth_percent.den
                /\ (cur.ccu = 10 /\ base.ccu = 5) => c.growth_percent = [num |-> 100, den |-> 1]

\* C13 witness: one candidate grew from 5 to 10 (100 percent), another from 4
\* to 5 (25 percent).
C13_Witness ==
    \E p \in Detectors :
        /\ det[p].pc = "returned"
        /\ \E i, j \in DOMAIN det[p].candidates :
              /\ det[p].candidates[i].current_ccu = 10
              /\ det[p].candidates[i].week_ago_ccu = 5
              /\ det[p].candidates[i].growth_percent = [num |-> 100, den |-> 1]
              /\ det[p].candidates[j].current_ccu = 5
              /\ det[p].candidates[j].week_ago_ccu = 4
              /\ det[p].candidates[j].growth_percent = [num |-> 25, den |-> 1]

HintWords ==
    {StrNew, StrUpdate, StrSecret, StrMechanic, StrCode, StrFeature, StrQuest, StrEvent}

\* the partial-similarity score of the lower-cased pair is at least 82
ScoreReaches(game_name, title) ==
    LET score == PartialRatio(Lower(game_name), Lower(title)) IN
    score.num >= 82 * score.den

\* C17: _video_matches_game is true exactly when, on the lower-cased strings,
\* the partial-similarity score is at least 82, or the title contains one of
\* the eight keywords and the name is a substring of the title; it is false for
\* "Blox Fruits" against "Random Gaming Video".
C17_MatchRule ==
    last_call.op = "_video_matches_game" =>
        /\ last_call.result =
              ( \/ ScoreReaches(last_call.game_name, last_call.title)
                \/ /\ \E word \in HintWords : In(word, Lower(last_call.title))
                   /\ In(Lower(last_call.game_name), Lower(last_call.title)) )
        /\ (last_call.game_name = StrBloxFruits /\ last_call.title = TitleRandom) =>
              last_call.result = FALSE
        /\ (last_call.game_name = StrPetSimulatorX /\ last_call.title = TitlePetSimulator) =>
              last_call.result = TRUE
        /\ (last_call.game_name = StrBrookhaven /\ last_call.title = TitleBrookhaven) =>
              last_call.result = TRUE

\* C17 witness: a match by score alone: the name is no substring of the title
\* and the score is below 100.
C17_Witness ==
    /\ last_call.op = "_video_matches_game"
    /\ last_call.result = TRUE
    /\ last_call.game_name # <<>>
    /\ ~In(Lower(last_call.game_name), Lower(last_call.title))
    /\ RatLess(PartialRatio(Lower(last_call.game_name), Lower(last_call.title)), Rat(100, 1))

LabelNewCode ==
    <<"N", "e", "w", " ", "C", "o", "d", "e", " ", "f", "o", "r", " ", "F", "r", "e",
      "e", " ", "I", "t", "e", "m", "s">>

TriggerWords ==
    {StrNew, StrSecret, StrUpdate, StrIntroducing, StrAdded, StrUnlock, StrMechanic,
     StrFeature, StrQuest, StrCode}

\* a trigger word stands in title at position i, in any case
WordAt(title, i, word) ==
    /\ i + Len(word) - 1 <= Len(title)
    /\ Lower(SubSeq(title, i, i + Len(word) - 1)) = word

TriggerPositions(title) ==
    {i \in DOMAIN title : \E word \in TriggerWords : WordAt(title, i, word)}

\* the text of the line after the first trigger word, without the separators
\* that follow the word and without whitespace at its end
AfterFirstTrigger(title) ==
    LET i == Least(TriggerPositions(title))
        word == CHOOSE w \in TriggerWords : WordAt(title, i, w)
        rest == SubSeq(title, i + Len(word), Len(title))
    IN  Strip(UpToNewline(DropLeading(rest, {":", "-", " ", "\t", "\n", "\r"})))

GrowthReaches(uid, at, threshold) ==
    /\ SnapshotsOf(uid) # {}
    /\ OldSnapshotsOf(uid, at) # {}
    /\ BaselineOf(uid, at).ccu > 0
    /\ (CurrentOf(uid).ccu - BaselineOf(uid, at).ccu) * threshold.den >=
          threshold.num * BaselineOf(uid, at).ccu

\* C15: the candidates of a run are exactly the universes whose growth is
\* defined and greater than or equal to the threshold, a growth equal to the
\* threshold included; every spike, returned or stored, is a candidate's.
C15_ThresholdRetains ==
    \A p \in Detectors :
        det[p].runs > 0 =>
            /\ \A uid \in TrackedIds :
                  uid \in CandidateIds(p) <=>
                      GrowthReaches(uid, det[p].started, det[p].growth_threshold)
            /\ \A k \in DOMAIN det[p].spikes :
                  det[p].spikes[k].universe_id \in CandidateIds(p)
            /\ \A k \in DOMAIN mechanic_spikes :
                  \E q \in Detectors : mechanic_spikes[k].universe_id \in CandidateIds(q)

\* C15 witness: at threshold 1/4 the universe that grew from 4 to 5 is a
\* candidate with a spike, and the universe that did not grow has none although
\* a fetched video names it.
C15_Witness ==
    \E p \in Detectors :
        /\ det[p].pc = "returned"
        /\ det[p].growth_threshold = GROWTH_THRESHOLD
        /\ CandidateIds(p) = {1}
        /\ CurrentOf(1).ccu = 5 /\ BaselineOf(1, det[p].started).ccu = 4
        /\ CurrentOf(2).ccu = BaselineOf(2, det[p].started).ccu
        /\ \E k \in DOMAIN det[p].spikes : det[p].spikes[k].universe_id = 1
        /\ \E j \in DOMAIN det[p].videos :
              VideoMatchesGame(StrPiggy, det[p].videos[j].title)

\* the loops over candidates and videos of p's run are over
LoopsDone(p) ==
    det[p].runs > 0 /\ det[p].pc \in {"ensure", "insert", "commit", "returned"}

\* the pairs <<i, j>> of p's run whose j-th video matches its i-th candidate
MatchingPairs(p) ==
    {pair \in (DOMAIN det[p].candidates) \X (DOMAIN det[p].videos) :
        VideoMatchesGame(det[p].candidates[pair[1]].game_name, det[p].videos[pair[2]].title)}

\* the spikes of p's run made of its i-th candidate
SpikesOfCandidate(p, i) ==
    {k \in DOMAIN det[p].spikes :
        det[p].spikes[k].universe_id = det[p].candidates[i].universe_id}

\* the spikes of p's run made of its j-th video
SpikesOfVideo(p, j) ==
    {k \in DOMAIN det[p].spikes :
        det[p].spikes[k].video_url = StrUrl \o det[p].videos[j].video_id}

\* C18: when the loops are over there is one spike for each pair of a
\* candidate and a video that match and none for any other pair; a candidate
\* matching m videos has m spikes, a video matching c candidates has c, and
\* the number of spikes is the number of matching pairs.
C18_OneSpikePerPair ==
    \A p \in Detectors :
        LoopsDone(p) =>
            \A matching \in {MatchingPairs(p)} :
            /\ \A i \in DOMAIN det[p].candidates : \A j \in DOMAIN det[p].videos :
                  Cardinality(SpikesOfCandidate(p, i) \cap SpikesOfVideo(p, j)) =
                      IF <<i, j>> \in matching THEN 1 ELSE 0
            /\ \A i \in DOMAIN det[p].candidates :
                  Cardinality(SpikesOfCandidate(p, i)) =
                      Cardinality({pair \in matching : pair[1] = i})
            /\ \A j \in DOMAIN det[p].videos :
                  Cardinality(SpikesOfVideo(p, j)) =
                      Cardinality({pair \in matching : pair[2] = j})
            /\ Len(det[p].spikes) = Cardinality(matching)

\* C18 witness: two candidates and two videos gave three spikes: one candidate
\* matches both videos and one video matches both candidates.
C18_Witness ==
    \E p \in Detectors :
        /\ LoopsDone(p)
        /\ Len(det[p].candidates) = 2
        /\ Len(det[p].videos) = 2
        /\ Len(det[p].spikes) = 3
        /\ \E i \in DOMAIN det[p].candidates : Cardinality(SpikesOfCandidate(p, i)) = 2
        /\ \E j \in DOMAIN det[p].videos : Cardinality(SpikesOfVideo(p, j)) = 2

\* C20: the detection time of every spike of a run lies between the start of
\* the run and the present, and the step that makes a spike stamps it with the
\* clock of that step, whatever the publication time of its video.
C20_DetectedAtDetection ==
    /\ [](\A p \in Detectors : \A k \in DOMAIN det[p].spikes :
             /\ det[p].started <= det[p].spikes[k].detected_at
             /\ det[p].spikes[k].detected_at <= now)
    /\ [][ \A p \in Detectors :
              (det'[p].runs = det[p].runs /\ det'[p].spikes # det[p].spikes) =>
                  /\ Len(det'[p].spikes) = Len(det[p].spikes) + 1
                  /\ SubSeq(det'[p].spikes, 1, Len(det[p].spikes)) = det[p].spikes
                  /\ det'[p].spikes[Len(det'[p].spikes)].detected_at = now
                  /\ det'[p].spikes[Len(det'[p].spikes)].published_at =
                        det[p].videos[det[p].vi].published_at ]_vars

\* C20 witness: a run returned two spikes of videos published at different
\* times, both stamped with the same clock, later than the start of the run and
\* later than either publication.
C20_Witness ==
    \E p \in Detectors :
        /\ det[p].pc = "returned"
        /\ \E k, l \in DOMAIN det[p].spikes :
              /\ det[p].spikes[k].published_at < det[p].spikes[l].published_at
              /\ det[p].spikes[l].published_at < det[p].spikes[l].detected_at
              /\ det[p].spikes[k].detected_at = det[p].spikes[l].detected_at
              /\ det[p].started < det[p].spikes[k].detected_at

(***************************************************************************)
(* Further properties of poll_top_games.                                   *)
(***************************************************************************)
\* the first position of x in s
FirstIndex(s, x) == CHOOSE i \in DOMAIN s : s[i] = x /\ \A j \in 1..(i - 1) : s[j] # x

\* u holds each element of s once, in the order of first occurrence in s
InFirstSeenOrder(u, s) ==
    /\ Range(u) = Range(s)
    /\ \A i, j \in DOMAIN u : i < j => FirstIndex(s, u[i]) < FirstIndex(s, u[j])

\* C28: a poll has one fetch task per distinct input ID, in the order of the
\* IDs' first occurrence; a task is sent once and never again; each added games
\* row is the row of the next ID in that order.
C28_DedupFirstSeen ==
    /\ [](pc \in {"fetching", "writing", "done"} =>
             /\ InFirstSeenOrder(unique_ids, universe_ids)
             /\ Len(task) = Cardinality(Range(universe_ids))
             /\ \A i \in DOMAIN snapshots : snapshots[i].universe_id = unique_ids[i]
             /\ pc = "done" => (wpos = Len(unique_ids) /\ \A i \in DOMAIN task : task[i] = "done"))
    /\ [][ \A i \in DOMAIN task :
              (pc' = pc /\ i \in DOMAIN task' /\ task'[i] # task[i]) =>
                  \/ task[i] = "pending" /\ task'[i] = "inflight"
                  \/ task[i] = "inflight" /\ task'[i] = "done" ]_vars
    /\ [][ (pc = "writing" /\ games' # games /\ games \subseteq games') =>
              /\ \E r \in games' \ games :
                    /\ games' = games \cup {r}
                    /\ r.universe_id = unique_ids[wpos]
                    /\ r.timestamp = timestamp
              /\ \/ wpos' = wpos + 1
                 \/ wpos = Len(unique_ids) /\ wstep' = "commit" ]_vars
    /\ [][ (pc = "fetching" /\ pc' = "writing") => wpos' = 1 ]_vars

\* C28 witness: a completed poll whose input names ID 2 first, then ID 1, then
\* one of them again.
C28_Witness ==
    /\ pc = "done"
    /\ universe_ids = RepeatedInput
    /\ unique_ids = <<2, 1>>
    /\ \A uid \in {1, 2} : \E r \in games : r.universe_id = uid /\ r.timestamp = timestamp

\* the metadata row m holds the descriptive fields and the metric of snapshot
HoldsSnapshot(m, snapshot) ==
    /\ m.universe_id = snapshot.universe_id
    /\ m.name = snapshot.name
    /\ m.root_place_id = snapshot.root_place_id
    /\ m.creator_id = snapshot.creator_id
    /\ m.creator_name = snapshot.creator_name
    /\ m.description = snapshot.description
    /\ m.genre = snapshot.genre
    /\ m.visits = snapshot.visits
    /\ m.last_seen_ccu = snapshot.ccu

\* C29: after a completed poll the one metadata row of every polled ID holds
\* what the poll's fetch returned for it, the default snapshot included, and
\* its last_seen_ccu is the ccu of the ID's games row of the batch; a step
\* removes or adds a metadata row only of the ID being written.
C29_MetadataOverwritten ==
    /\ [](pc = "done" =>
             \A i \in DOMAIN unique_ids :
                 /\ \A m \in game_metadata :
                       m.universe_id = unique_ids[i] =>
                           /\ HoldsSnapshot(m, snapshots[i])
                           /\ FetchFailed(responses[i]) => HoldsSnapshot(m, DefaultSnapshot(unique_ids[i]))
                           /\ \A r \in games :
                                 (r.universe_id = unique_ids[i] /\ r.timestamp = timestamp)
                                     => r.ccu = m.last_seen_ccu
                 /\ \E m \in game_metadata : m.universe_id = unique_ids[i]
                 /\ \E r \in games : r.universe_id = unique_ids[i] /\ r.timestamp = timestamp)
    /\ [][ \A m \in (game_metadata \ game_metadata') \cup (game_metadata' \ game_metadata) :
              /\ pc = "writing"
              /\ m.universe_id = unique_ids[wpos] ]_vars

\* C29 witness: a completed poll of ID 1 alone whose fetch failed, after a poll
\* that had stored "Alpha" for IDs 1 and 2: the row of ID 1 now holds the
\* default snapshot, the row of ID 2 what it held.
C29_Witness ==
    /\ pc = "done"
    /\ unique_ids = <<1>>
    /\ FetchFailed(responses[1])
    /\ \E r \in games : r.universe_id = 1 /\ r.timestamp < timestamp /\ r.name = "Alpha"
    /\ \E m \in game_metadata :
          m.universe_id = 1 /\ m.name = "Unknown" /\ m.last_seen_ccu = 0
    /\ \E m \in game_metadata :
          m.universe_id = 2 /\ m.name = "Alpha" /\ m.updated_at < timestamp

(***************************************************************************)
(* Further properties of get_top_universe_ids.                             *)
(***************************************************************************)
\* a response that is no page: an exception, a status other than 200, a body
\* that is no JSON object
FailingResponses ==
    {resp \in DiscoveryResponses :
        resp.kind = "raise" \/ resp.status # 200 \/ resp.body.type # "object"}

\* C26: the endpoints are contacted in the configured order, each only after
\* every endpoint before it ended with no ID collected; a failing response ends
\* the paging of its endpoint, collects nothing and raises nothing; a call that
\* collected an ID contacts no further endpoint, and the fallback is used only
\* after every endpoint was tried.
C26_EndpointsInOrder ==
    /\ [](rpc = "discover" =>
             /\ endpoint \in DOMAIN POPULAR_ENDPOINTS
             /\ contacted \in {1..(endpoint - 1), 1..endpoint}
             /\ endpoint \notin contacted => top_ids = <<>>
             /\ \A resp \in FailingResponses :
                   LET p == OnePage(resp, top_ids, seen, cursor, limit) IN
                   p.end # "continue" /\ p.ids = top_ids)
    /\ []((rpc = "returned" /\ via = "discovery") =>
             /\ result # <<>>
             /\ contacted = 1..endpoint)
    /\ []((rpc = "returned" /\ via = "fallback" /\ limit >= 1) =>
             contacted = DOMAIN POPULAR_ENDPOINTS)
    /\ [][ (rpc = "discover" /\ now' = now) =>
              /\ rpc' # "raised"
              /\ contacted' = contacted \cup {endpoint}
              /\ endpoint' # endpoint =>
                    /\ endpoint' = endpoint + 1
                    /\ top_ids' = <<>>
                    /\ rpc' = "discover"
              /\ (rpc' = "discover" /\ top_ids' # <<>>) => endpoint' = endpoint
              /\ top_ids # <<>> => endpoint' = endpoint ]_vars

\* C26 witness: the first endpoint failed, the second gave the IDs returned.
C26_Witness ==
    /\ rpc = "returned"
    /\ via = "discovery"
    /\ endpoint = 2
    /\ contacted = {1, 2}
    /\ result # <<>>

(***************************************************************************)
(* Further properties of detect_mechanic_spikes.                           *)
(***************************************************************************)
\* the stored videos that a spike of p's run, returned or stored, points at
MentionedVideos(p) ==
    {v \in youtube_videos :
        \/ \E k \in DOMAIN det[p].spikes :
              det[p].spikes[k].video_url = StrUrl \o v.video_id
        \/ \E k \in DOMAIN mechanic_spikes :
              mechanic_spikes[k].video_url = StrUrl \o v.video_id}

\* C24: the videos a run fetches, and the videos of its spikes, returned or
\* stored, were published no earlier than lookback_hours before the time the
\* run read the videos, which is no earlier than its start; the fetch takes
\* that time from the clock of its step.
C24_LookbackWindow ==
    /\ [](\A p \in Detectors :
             /\ \A j \in DOMAIN det[p].videos :
                   det[p].videos[j].published_at >= det[p].since
             /\ \A k \in DOMAIN det[p].spikes :
                   det[p].spikes[k].published_at >= det[p].since
             /\ det[p].runs > 0 =>
                   \A v \in MentionedVideos(p) :
                       v.published_at >= det[p].started - det[p].lookback_hours)
    /\ [][ \A p \in Detectors :
              (det[p].pc = "videos" /\ det'[p].pc # "videos") =>
                  /\ det'[p].since = now - det[p].lookback_hours
                  /\ det'[p].since >= det[p].started - det[p].lookback_hours ]_vars

\* C24 witness: a run returned a spike of universe 1 while a stored video that
\* names universe 1, published before the window, is in none of its spikes.
C24_Witness ==
    \E p \in Detectors :
        /\ det[p].pc = "returned"
        /\ \E k \in DOMAIN det[p].spikes : det[p].spikes[k].game_name = StrDoors
        /\ \E v \in youtube_videos \ MentionedVideos(p) :
              /\ v.published_at < det[p].since
              /\ VideoMatchesGame(StrDoors, v.title)

\* spike carries the candidate fields of c and the mention fields of v
MadeOf(spike, c, v) ==
    /\ spike.universe_id = c.universe_id
    /\ spike.game_name = c.game_name
    /\ spike.current_ccu = c.current_ccu
    /\ spike.week_ago_ccu = c.week_ago_ccu
    /\ spike.growth_percent = c.growth_percent
    /\ spike.published_at = v.published_at
    /\ spike.channel_title = v.channel_title
    /\ spike.video_title = v.title
    /\ spike.video_url = StrUrl \o v.video_id

\* C30: every spike of a run is made of one of the run's candidates and one
\* of its fetched videos, and that candidate holds the ID, stored name and
\* metrics of one universe; the step that appends a spike makes it of the
\* candidate and the video the loops are at.
C30_FieldsOfThePair ==
    /\ [](\A p \in Detectors : \A k \in DOMAIN det[p].spikes :
             \E i \in DOMAIN det[p].candidates, j \in DOMAIN det[p].videos :
                 /\ MadeOf(det[p].spikes[k], det[p].candidates[i], det[p].videos[j])
                 /\ det[p].videos[j] \in youtube_videos
                 /\ det[p].spikes[k].current_ccu = CurrentOf(det[p].spikes[k].universe_id).ccu
                 /\ det[p].spikes[k].game_name = CurrentOf(det[p].spikes[k].universe_id).name
                 /\ det[p].spikes[k].week_ago_ccu =
                       BaselineOf(det[p].spikes[k].universe_id, det[p].started).ccu)
    /\ [][ \A p \in Detectors :
              (det'[p].runs = det[p].runs /\ Len(det'[p].spikes) > Len(det[p].spikes)) =>
                  MadeOf(det'[p].spikes[Len(det'[p].spikes)],
                         det[p].candidates[det[p].ci], det[p].videos[det[p].vi]) ]_vars

\* C30 witness: a run returned three spikes of two candidates and two videos
\* that differ in every field.
C30_Witness ==
    \E p \in Detectors :
        /\ det[p].pc = "returned"
        /\ Len(det[p].spikes) = 3
        /\ \E k, l \in DOMAIN det[p].spikes :
              /\ det[p].spikes[k].universe_id # det[p].spikes[l].universe_id
              /\ det[p].spikes[k].game_name # det[p].spikes[l].game_name
              /\ det[p].spikes[k].current_ccu # det[p].spikes[l].current_ccu
              /\ det[p].spikes[k].week_ago_ccu # det[p].spikes[l].week_ago_ccu
              /\ det[p].spikes[k].growth_percent # det[p].spikes[l].growth_percent
              /\ det[p].spikes[k].published_at # det[p].spikes[l].published_at
              /\ det[p].spikes[k].channel_title # det[p].spikes[l].channel_title
              /\ det[p].spikes[k].video_title # det[p].spikes[l].video_title
              /\ det[p].spikes[k].video_url # det[p].spikes[l].video_url

(***************************************************************************)
(* Statements of the store that raise, under a poll and a detection run.   *)
(***************************************************************************)
\* the entry the metric endpoint answers with at the time of the poll
GameDoors == JObject([name |-> StrDoors, playing |-> 6])

InitWrite ==
    /\ InitStore
    /\ games = NarrowTable

\* one poll of universes 1 and 2, whose fetches succeed, and one persisting detection
\* run, in any interleaving; any statement that writes may raise
WriteNext ==
    \/ polls = 0 /\ PollStart(<<1, 2>>)
    \/ \E i \in DOMAIN task : FetchAcquire(i)
    \/ \E i \in DOMAIN task :
          FetchComplete(i, HttpResponse(200, JObject([data |-> JArray(<<GameDoors>>)])))
    \/ GatherDone
    \/ UpsertMetadata
    \/ DeleteSnapshotRow
    \/ InsertSnapshotRow
    \/ Commit
    \/ StoreError
    \/ /\ det["a"].runs = 0
       /\ DetectStart("a", MENTION_LOOKBACK_HOURS, GROWTH_THRESHOLD, TRUE)
    \/ FetchRecentVideos("a")
    \/ Correlate("a")
    \/ EnsureSpikesTable("a")
    \/ InsertSpike("a")
    \/ PersistDone("a")
    \/ PersistError("a")

SpecWrite == InitWrite /\ [][WriteNext]_vars

(***************************************************************************)
(* Properties of the spike store.                                          *)
(***************************************************************************)
\* tbl is the beginning of tbl2
IsPrefix(tbl, tbl2) ==
    /\ Len(tbl) <= Len(tbl2)
    /\ \A k \in DOMAIN tbl : tbl2[k] = tbl[k]

\* C21: the spike store is append-only across calls of detect_mechanic_spikes
\* and get_historical_spikes: a step of either leaves every stored row as it
\* is and where it is, adds rows at the end or none, and never drops the table
C21_AppendOnly ==
    [][ /\ IsPrefix(mechanic_spikes, mechanic_spikes')
        /\ spikes_table => spikes_table' ]_vars

\* the second persisting run has added its rows after those of the first,
\* and the history was read in between
C21_Witness ==
    /\ det["a"].runs = 2
    /\ det["a"].pc = "returned"
    /\ det["a"].persist
    /\ Len(det["a"].spikes) = 2
    /\ Len(mechanic_spikes) = 4
    /\ last_call.op = "get_historical_spikes"
    /\ last_call.limit = MaxLimit
    /\ Len(last_call.result) = 2
    /\ \A k \in 1..2 : mechanic_spikes[k].detected_at < det["a"].started

\* the step is a call of get_historical_spikes
IsRetrieval ==
    /\ last_call'.op = "get_historical_spikes"
    /\ mechanic_spikes' = mechanic_spikes
    /\ det' = det
    /\ now' = now

\* the stored row a retrieved spike was built from
RowOf(spike) == [spike EXCEPT !.detected_at = @.wall]

\* the spikes are min(lim, number of rows) rows of the table, each taken
\* once, in descending order of detected_at, and no row left out has a greater
\* detected_at than one returned
MostRecent(spikes, lim, tbl) ==
    /\ Len(spikes) = Min(lim, Len(tbl))
    /\ \A k \in 1..(Len(spikes) - 1) :
          spikes[k].detected_at.wall >= spikes[k + 1].detected_at.wall
    /\ \E f \in [DOMAIN spikes -> DOMAIN tbl] :
          /\ \A k, l \in DOMAIN spikes : f[k] = f[l] => k = l
          /\ \A k \in DOMAIN spikes : RowOf(spikes[k]) = tbl[f[k]]
          /\ \A j \in DOMAIN tbl :
                (\A k \in DOMAIN spikes : f[k] # j) =>
                    \A k \in DOMAIN spikes : tbl[j].detected_at <= spikes[k].detected_at.wall

\* process p made the one persisting run there was, on an empty store, and
\* returned the spikes that are stored
OnePersistingRun(p) ==
    /\ det[p].pc = "returned"
    /\ det[p].persist
    /\ det[p].spikes # <<>>
    /\ Len(mechanic_spikes) = Len(det[p].spikes)

\* the spikes retrieved are those the run returned, field by field
SameSpikes(retrieved, returned) ==
    /\ Len(retrieved) = Len(returned)
    /\ {retrieved[k] : k \in DOMAIN retrieved} = {AsReturned(returned[k]) : k \in DOMAIN returned}

\* what get_historical_spikes does hold to: the number, the choice and the
\* order of the spikes, and the creation of the table
RetrievalMostRecent ==
    [][IsRetrieval =>
          /\ spikes_table'
          /\ MostRecent(last_call'.result, last_call'.limit, mechanic_spikes)]_vars

\* C22: get_historical_spikes(limit) creates the table if it is absent and
\* returns min(limit, number of stored spikes) spikes, those of greatest
\* detected_at, in descending order of detected_at; after one persisting run
\* on an empty store that returned n spikes, a retrieval with limit >= n
\* returns n spikes with the field values of the spikes the run returned
C22_Retrieval ==
    [][IsRetrieval =>
          /\ spikes_table'
          /\ MostRecent(last_call'.result, last_call'.limit, mechanic_spikes)
          /\ \A p \in Detectors :
                OnePersistingRun(p) /\ last_call'.limit >= Len(det[p].spikes) =>
                    SameSpikes(last_call'.result, det[p].spikes)]_vars

\* the number of rows of tbl equal to row
RECURSIVE Count(_, _)
Count(tbl, row) ==
    IF tbl = <<>> THEN 0
    ELSE (IF Head(tbl) = row THEN 1 ELSE 0) + Count(Tail(tbl), row)

\* no run is under way
Quiescent == \A p \in Detectors : det[p].pc \in {"idle", "returned", "raised"}

\* the detection runs made so far
RunsMade == det["a"].runs + det["b"].runs

\* C23: there is no deduplication across detection runs: when k persisting
\* runs, one after the other or at the same time, have each detected n spikes
\* over the same snapshots and videos, the store holds k*n rows, each spike of
\* a run k times: no run's rows are lost, merged or rejected
C23_NoDeduplication ==
    Quiescent =>
        \A p \in Detectors :
            det[p].runs > 0 =>
                /\ Len(mechanic_spikes) = RunsMade * Len(det[p].spikes)
                /\ \A k \in DOMAIN det[p].spikes :
                      Count(mechanic_spikes,
                            StoredSpike(det[p].spikes[k], det[p].time_zone)) = RunsMade

(***************************************************************************)
(* Errors of the store.                                                    *)
(***************************************************************************)
\* every spike of the run of process p is a row of the table
AllStored(p) ==
    /\ spikes_table
    /\ \A k \in DOMAIN det[p].spikes :
          Count(mechanic_spikes, StoredSpike(det[p].spikes[k], det[p].time_zone)) >= 1

\* C25: an error the store raises on a write of poll_top_games or of
\* _persist_spikes is fatal: the call raises at that statement and writes
\* nothing after it, and a call that returned met no such error: the poll that
\* is done wrote a row for each universe, the run that returned stored each
\* of its spikes
C25_WriteErrorFatal ==
    /\ [](error = "store" => pc = "failed")
    /\ [](pc = "done" =>
            /\ error = "none"
            /\ \A i \in DOMAIN unique_ids :
                  \E r \in games : r.universe_id = unique_ids[i] /\ r.timestamp = timestamp)
    /\ [](det["a"].pc = "returned" /\ det["a"].persist /\ det["a"].spikes # <<>> =>
            AllStored("a"))
    /\ [][ /\ pc = "failed" => games' = games /\ game_metadata' = game_metadata
           /\ det["a"].pc = "raised" =>
                  /\ det' = det
                  /\ mechanic_spikes' = mechanic_spikes
                  /\ spikes_table' = spikes_table ]_vars

\* the poll raised on a write after the rows of its first universe, and the
\* detection run raised on its second INSERT
C25_Witness ==
    /\ pc = "failed"
    /\ error = "store"
    /\ \E r \in games : r.universe_id = 1 /\ r.ccu = 6
    /\ ~ \E r \in games : r.universe_id = 2 /\ r.ccu = 6
    /\ det["a"].pc = "raised"
    /\ Len(det["a"].spikes) = 2
    /\ Len(mechanic_spikes) = 1

(***************************************************************************)
(* The snapshots the evaluator compares.                                   *)
(***************************************************************************)
\* C27: for each candidate of an evaluation, "current" is the universe's
\* snapshot of greatest timestamp and "baseline" its snapshot of greatest
\* timestamp among those taken seven days or more before the evaluation; no
\* newer snapshot is the baseline, and a universe without such a snapshot is
\* no candidate
C27_CurrentAndBaseline ==
    \A p \in Detectors :
        \A i \in DOMAIN det[p].candidates :
            LET c == det[p].candidates[i] IN
                /\ c.current_ccu = CurrentOf(c.universe_id).ccu
                /\ c.current_timestamp = CurrentOf(c.universe_id).timestamp
                /\ OldSnapshotsOf(c.universe_id, det[p].started) # {}
                /\ c.week_ago_ccu = BaselineOf(c.universe_id, det[p].started).ccu

(***************************************************************************)
(* Termination of get_top_universe_ids.                                    *)
(***************************************************************************)
\* C31: get_top_universe_ids always terminates: when every request returns,
\* a call that has entered the paging loop leaves it after finitely many
\* requests, also when the pages go on carrying a cursor and only IDs that
\* were seen already
C31_Terminates == (rpc = "discover") ~> (rpc # "discover")

(***************************************************************************)
(* Completion of poll_top_games.                                           *)
(***************************************************************************)
\* C32: poll_top_games always completes: when every fetch returns, a poll
\* that began fetching reaches the end of its commit, whatever max_concurrency
\* the client was built with; meanwhile the permits out are those of the
\* fetches in flight, so each permit taken is given back, also by a fetch that
\* failed, and at the end every fetch has run
C32_PollCompletes ==
    /\ (pc = "fetching") ~> (pc = "done")
    /\ [](pc \in {"fetching", "writing", "done"} =>
            sem_value + Cardinality(InFlight) = max_concurrency)
    /\ [](pc = "done" => \A i \in DOMAIN task : task[i] = "done")

\* a client built with max_concurrency <= 0 has polled two universes, one of
\* whose fetches failed
C32_Witness ==
    /\ pc = "done"
    /\ max_concurrency = 1
    /\ Len(unique_ids) = 2
    /\ responses[1] = NetworkError
    /\ sem_value = 1

(***************************************************************************)
(* The two phases of poll_top_games.                                       *)
(***************************************************************************)
\* C33: within one poll no row of the batch is written before every fetch of
\* the batch has finished: while the poll fetches, games is what it was when
\* the poll began and no step changes a table; a step that changes a table
\* belongs to the write loop, after all fetches, and the loop goes through
\* the snapshots once, in order
C33_WritesAfterFetches ==
    /\ [](pc = "fetching" => games = pre_games)
    /\ [][ /\ pc = "fetching" => games' = games /\ game_metadata' = game_metadata
           /\ (games' # games \/ game_metadata' # game_metadata) =>
                  pc = "writing" /\ \A i \in DOMAIN task : task[i] = "done"
           /\ (pc = "writing" /\ pc' = "writing") =>
                  wpos' \in {wpos, wpos + 1} ]_vars

\* the second poll is fetching, one fetch done and one in flight, over the
\* rows the first poll wrote
C33_Witness ==
    /\ pc = "fetching"
    /\ polls = 2
    /\ games # {}
    /\ \E i, j \in DOMAIN task : task[i] = "done" /\ task[j] = "inflight"

(***************************************************************************)
(* The cache file under hits.                                              *)
(***************************************************************************)
\* C34: a cache hit leaves the cache file as it is, generated_at and ID list
\* alike; an entry is therefore honoured only up to the TTL after it was
\* written, and a call later than that is no hit, however many calls hit the
\* entry before
C34_HitLeavesFile ==
    /\ [][(calls' # calls /\ via' = "cache") => cache' = cache]_vars
    /\ [][ ( /\ calls' # calls
             /\ cache.state = "json"
             /\ cache.has_generated_at
             /\ now - cache.generated_at > cache_ttl ) => via' # "cache" ]_vars
    /\ [](via = "cache" =>
            /\ call_cache.generated_at = cache.generated_at
            /\ call_time - cache.generated_at <= cache_ttl)

\* the second call hit the entry written at time 0, at the very end of its
\* TTL, after the first call had hit it
C34_Witness ==
    /\ calls = 2
    /\ via = "cache"
    /\ cache = SaveCachedUniverses(<<1, 2, 3>>, 0)
    /\ call_time = cache_ttl

\* C35: a discovery result is cached as truncated to the limit of its call:
\* it holds at most that many IDs, and a call with a greater limit within the
\* TTL returns those IDs and no more, from the cache, sends no request and
\* leaves the file as it is
C35_CachedTruncated ==
    /\ []((rpc = "returned" /\ via = "discovery") =>
            /\ Len(cache.universe_ids) <= limit
            /\ cache.universe_ids = result)
    /\ [][ ( /\ rpc = "returned"
             /\ via = "discovery"
             /\ calls' = calls + 1
             /\ now - cache.generated_at <= cache_ttl
             /\ limit' > limit ) =>
                /\ rpc' = "returned"
                /\ via' = "cache"
                /\ contacted' = {}
                /\ result' = cache.universe_ids
                /\ Len(result') = Min(limit', Len(cache.universe_ids))
                /\ Len(result') < limit'
                /\ cache' = cache ]_vars

\* a call with limit 3 got the one ID that a call with limit 1 had discovered
\* and cached
C35_Witness ==
    /\ calls = 2
    /\ rpc = "returned"
    /\ via = "cache"
    /\ limit = MaxLimit
    /\ Len(result) = 1
    /\ call_cache.state = "json"
    /\ call_cache.universe_ids = result
    /\ call_cache.has_generated_at

(***************************************************************************)
(* Properties of the evaluator for universes that are no longer polled.    *)
(***************************************************************************)
\* the most recent snapshot of uid was at least seven days old when p's run began
Stale(p, uid) ==
    /\ SnapshotsOf(uid) # {}
    /\ CurrentOf(uid).timestamp <= det[p].started - SevenDays

Persisting(p) == det[p].pc \in {"ensure", "insert", "commit"}

\* C37: a run of detect_mechanic_spikes with persist false, or one that has
\* detected no spike (no growth candidate, or no mention that matches), never
\* enters _persist_spikes, and none of its steps changes the spike store: the
\* table is not created and no row is added, removed or changed; the run
\* only returns its list.  The snapshots and the videos are left alone too.
C37_NothingPersisted ==
    /\ [](\A p \in Detectors :
            Persisting(p) => (det[p].persist /\ det[p].spikes # <<>>))
    /\ [](\A p \in Detectors :
            (det[p].pc = "returned" /\ det[p].runs > 0 /\ det[p].candidates = <<>>) =>
                det[p].spikes = <<>>)
    /\ [][ \A p \in Detectors :
              (det'[p] # det[p] /\ ~(det'[p].persist /\ det'[p].spikes # <<>>)) =>
                  /\ mechanic_spikes' = mechanic_spikes
                  /\ spikes_table' = spikes_table
                  /\ games' = games
                  /\ youtube_videos' = youtube_videos ]_vars

\* C37 witness: a second run, made with persist false, has returned spikes
\* while the store keeps just the rows of the first run.
C37_Witness ==
    \E p \in Detectors :
        /\ det[p].runs = 2
        /\ det[p].pc = "returned"
        /\ ~det[p].persist
        /\ det[p].spikes # <<>>
        /\ mechanic_spikes # <<>>
        /\ \A k \in DOMAIN mechanic_spikes : mechanic_spikes[k].detected_at < det[p].started

====
